---- MODULE Spec2Model ----
(***************************************************************************)
(* Model of the Project Context MCP server: the error-normalising          *)
(* middleware and the sliding-window RateLimiter (src/mcp/middleware.ts),  *)
(* the resource provider (src/mcp/resources.ts), the tool executor         *)
(* (src/mcp/tools.ts), the prompt composer (src/mcp/prompts.ts) and the    *)
(* protocol handlers of ProjectContextMCPServer (src/mcp/server.ts).       *)
(*                                                                         *)
(* Eleven specifications share the variables:                                *)
(*   SpecRL        RateLimiter.checkLimit under a non-decreasing clock;    *)
(*   SpecServerRL  the server's request handlers next to that clock;       *)
(*   Spec          one request through readResource, executeTool, the      *)
(*                 server handlers or the middleware, over a small file    *)
(*                 system;                                                 *)
(*   SpecSearch    the search_project walk, one loop iteration per step,   *)
(*                 and file reads on the same file system;                 *)
(*   SpecProject   one resource read, tool, prompt or search walk over a   *)
(*                 project tree with unlistable directories, stale         *)
(*                 entries and a manifest declaring dependencies;          *)
(*   SpecMiddleware  one call of errorHandlingMiddleware, step by step;    *)
(*   SpecLife      sequential start() and stop() calls of the server;      *)
(*   SpecLifeOverlap  start() and stop() calls that may overlap;           *)
(*   SpecConfig    ServerConfig.fromEnvironment over the environment;      *)
(*   SpecConcurrent  two requests that take turns at their fs calls;       *)
(*   SpecStats     the overview and the structure tree of one project.     *)
(***************************************************************************)
EXTENDS Integers, Sequences, FiniteSets, TLC

VARIABLES
    \* ---- RateLimiter (middleware.ts:133-163) and the clock --------------
    now,          \* Date.now()
    maxRequests,  \* RateLimiter.maxRequests
    windowMs,     \* RateLimiter.windowMs
    requests,     \* RateLimiter.requests : clientId -> timestamps
    calls,        \* history of checkLimit calls: [client, ts, result]
    started,      \* per caller, the times at which a handler started its operation
    lastRequest,  \* the last request a server handler dispatched
    \* ---- one request through the resource provider, tools or handlers ---
    fs,           \* the file system: absolute path -> node
    request,      \* the request being served
    response,     \* its outcome: a result returned or an error thrown
    accessed,     \* the paths the request passed to fs.access/stat/readdir/readFile
    toolRan,      \* the tool whose body the request entered ("" for none)
    \* ---- the walk of search_project (tools.ts:658-721, 867-949) ---------
    searchPc,     \* "idle", "walking" or "done"
    searchParams, \* query, maxResults, caseSensitive, includeContent
    result,       \* SearchResult: results, totalResults, searchTime
    stack,        \* the pending searchInDirectory calls, innermost last
    startTime,    \* Date.now() when the search began
    \* ---- one call of errorHandlingMiddleware, step by step ---------------
    mwPc,         \* "idle", "received", "executing", "completed" or "failed"
    invocations,  \* how many times the wrapped operation was invoked
    \* ---- ProjectContextMCPServer.start / stop (server.ts:250-296) --------
    isRunning,    \* ProjectContextMCPServer.isRunning
    pending,      \* the start() and stop() calls awaiting connect or close
    connects,     \* how many times server.connect was called
    closes,       \* how many times server.close was called
    lifeCalls,    \* the start() and stop() calls that returned or threw
    \* ---- ServerConfig.fromEnvironment (config.ts:75-84) ------------------
    env,          \* process.env: LOG_LEVEL, PROJECT_PATH, CACHE_ENABLED, CACHE_TTL
    config,       \* the ServerConfig built from it
    \* ---- two requests under way at once ---------------------------------
    inflight      \* per request: its position and the locals of its call

rlVars == <<now, maxRequests, windowMs, requests, calls, started, lastRequest>>

reqVars == <<fs, request, response, accessed, toolRan>>

searchVars == <<searchPc, searchParams, result, stack, startTime>>

mwVars == <<mwPc, invocations>>

lifeVars == <<isRunning, pending, connects, closes, lifeCalls>>

cfgVars == <<env, config>>

concVars == <<inflight>>

vars == <<now, maxRequests, windowMs, requests, calls, started, lastRequest,
          fs, request, response, accessed, toolRan,
          searchPc, searchParams, result, stack, startTime,
          mwPc, invocations,
          isRunning, pending, connects, closes, lifeCalls,
          env, config, inflight>>

----------------------------------------------------------------------------
(* Bounds *)

MaxTime == 4
MaxCalls == 4
MaxStarted == 3
MaxLimit == 2
MaxWindow == 3

Clients == {"client1", "client2"}

Methods == {"CallTool", "ReadResource", "ListResources", "ListTools",
            "ListPrompts", "GetPrompt"}

----------------------------------------------------------------------------
(* Sequence helpers *)

RECURSIVE SelectSeqIdx(_, _, _)
\* Array.prototype.filter with the predicate given as a set of kept values
SelectSeqIdx(s, keep, i) ==
    IF i > Len(s) THEN <<>>
    ELSE (IF s[i] \in keep THEN <<s[i]>> ELSE <<>>) \o SelectSeqIdx(s, keep, i + 1)

----------------------------------------------------------------------------
(* Strings and paths.                                                      *)
(* A string that is only compared or concatenated is the sequence of its   *)
(* tokens: 'context://file/src/a.ts' is <<"context://file/", "src",        *)
(* "a.ts">>, a relative path is the sequence of its segments, a message is *)
(* its literal prefix followed by the tokens of the interpolated value.    *)
(* A name whose characters matter (startsWith('.'), localeCompare,         *)
(* includes(query)) is spelled out by Chars.                               *)

startsWith(s, prefix) ==
    Len(prefix) <= Len(s) /\ SubSeq(s, 1, Len(prefix)) = prefix

includes(s, sub) ==
    \E i \in 0..(Len(s) - Len(sub)) : SubSeq(s, i + 1, i + Len(sub)) = sub

Chars(name) ==
    CASE name = "home"         -> <<"h", "o", "m", "e">>
      [] name = "proj"         -> <<"p", "r", "o", "j">>
      [] name = "secret.txt"   -> <<"s", "e", "c", "r", "e", "t", ".", "t", "x", "t">>
      [] name = "package.json" -> <<"p", "a", "c", "k", "a", "g", "e", ".", "j", "s", "o", "n">>
      [] name = "src"          -> <<"s", "r", "c">>
      [] name = "a.ts"         -> <<"a", ".", "t", "s">>
      [] name = "B.ts"         -> <<"B", ".", "t", "s">>
      [] name = "big.log"      -> <<"b", "i", "g", ".", "l", "o", "g">>
      [] name = ".env"         -> <<".", "e", "n", "v">>
      [] name = ".github"      -> <<".", "g", "i", "t", "h", "u", "b">>
      [] name = "node_modules" -> <<"n", "o", "d", "e", "_", "m", "o", "d", "u", "l", "e", "s">>
      [] name = "x.js"         -> <<"x", ".", "j", "s">>
      [] name = "dist"         -> <<"d", "i", "s", "t">>
      [] name = "build"        -> <<"b", "u", "i", "l", "d">>
      [] name = "coverage"     -> <<"c", "o", "v", "e", "r", "a", "g", "e">>
      [] name = "package-lock.json" ->
            <<"p", "a", "c", "k", "a", "g", "e", "-", "l", "o", "c", "k", ".",
              "j", "s", "o", "n">>
      [] name = "yarn.lock"    -> <<"y", "a", "r", "n", ".", "l", "o", "c", "k">>
      [] name = "stale.ts"     -> <<"s", "t", "a", "l", "e", ".", "t", "s">>
      [] name = "a"            -> <<"a">>
      [] name = "A"            -> <<"A">>
      [] name = "b"            -> <<"b">>
      [] name = "ab"           -> <<"a", "b">>
      [] name = "ba"           -> <<"b", "a">>
      [] name = "Ab"           -> <<"A", "b">>
      [] name = ""             -> <<>>
      [] OTHER                 -> <<name>>

\* path.extname: from the last '.' to the end, '' when there is none or the
\* only '.' is the first character
extname(name) ==
    LET cs   == Chars(name)
        dots == {i \in 2..Len(cs) : cs[i] = "."}
    IN  IF dots = {} THEN <<>>
        ELSE LET d == CHOOSE i \in dots : \A j \in dots : j <= i
             IN  SubSeq(cs, d, Len(cs))

LowerLetters == <<"a", "b", "c", "d", "e", "f", "g", "h", "i", "j", "k", "l", "m",
                  "n", "o", "p", "q", "r", "s", "t", "u", "v", "w", "x", "y", "z">>

UpperLetters == <<"A", "B", "C", "D", "E", "F", "G", "H", "I", "J", "K", "L", "M",
                  "N", "O", "P", "Q", "R", "S", "T", "U", "V", "W", "X", "Y", "Z">>

isUpper(c) == \E i \in DOMAIN UpperLetters : UpperLetters[i] = c

\* String.prototype.toLowerCase on one character
toLowerCaseChar(c) ==
    IF isUpper(c)
    THEN LowerLetters[CHOOSE i \in DOMAIN UpperLetters : UpperLetters[i] = c]
    ELSE c

toLowerCase(cs) == [i \in DOMAIN cs |-> toLowerCaseChar(cs[i])]

\* primary collation weight of a character: punctuation before letters,
\* letters in alphabetical order whatever their case
CollationWeight(c) ==
    LET l == toLowerCaseChar(c) IN
    IF \E i \in DOMAIN LowerLetters : LowerLetters[i] = l
    THEN 10 + (CHOOSE i \in DOMAIN LowerLetters : LowerLetters[i] = l)
    ELSE IF c = "_" THEN 1 ELSE IF c = "." THEN 2 ELSE 3

RECURSIVE comparePrimary(_, _)
comparePrimary(a, b) ==
    IF a = <<>> /\ b = <<>> THEN 0
    ELSE IF a = <<>> THEN -1
    ELSE IF b = <<>> THEN 1
    ELSE IF CollationWeight(Head(a)) < CollationWeight(Head(b)) THEN -1
    ELSE IF CollationWeight(Head(a)) > CollationWeight(Head(b)) THEN 1
    ELSE comparePrimary(Tail(a), Tail(b))

RECURSIVE compareCase(_, _)
compareCase(a, b) ==
    IF a = <<>> \/ b = <<>> THEN 0
    ELSE IF ~isUpper(Head(a)) /\ isUpper(Head(b)) THEN -1
    ELSE IF isUpper(Head(a)) /\ ~isUpper(Head(b)) THEN 1
    ELSE compareCase(Tail(a), Tail(b))

\* String.prototype.localeCompare (default ICU collation): letters compare
\* without regard to case first; case decides only between otherwise equal
\* strings, lower case first
localeCompare(a, b) ==
    LET p == comparePrimary(Chars(a), Chars(b)) IN
    IF p # 0 THEN p ELSE compareCase(Chars(a), Chars(b))

\* the UTF-16 code unit of a character of a name
CodeUnit(c) ==
    IF isUpper(c) THEN 64 + (CHOOSE i \in DOMAIN UpperLetters : UpperLetters[i] = c)
    ELSE IF \E i \in DOMAIN LowerLetters : LowerLetters[i] = c
    THEN 96 + (CHOOSE i \in DOMAIN LowerLetters : LowerLetters[i] = c)
    ELSE IF c = "-" THEN 45 ELSE IF c = "." THEN 46 ELSE IF c = "_" THEN 95 ELSE 48

RECURSIVE compareCodeUnits(_, _)
\* the comparison of the < operator on strings: code unit by code unit, so
\* that every upper-case letter precedes every lower-case one
compareCodeUnits(a, b) ==
    IF a = <<>> /\ b = <<>> THEN 0
    ELSE IF a = <<>> THEN -1
    ELSE IF b = <<>> THEN 1
    ELSE IF CodeUnit(Head(a)) < CodeUnit(Head(b)) THEN -1
    ELSE IF CodeUnit(Head(a)) > CodeUnit(Head(b)) THEN 1
    ELSE compareCodeUnits(Tail(a), Tail(b))

projectPath == <<"home", "proj">>

RECURSIVE normalize(_, _)
\* path.normalize on the joined segments: '.' and '' are dropped and '..'
\* removes the segment before it
normalize(acc, segs) ==
    IF segs = <<>> THEN acc
    ELSE LET seg == Head(segs) IN
         normalize(IF seg = ".."
                   THEN (IF acc = <<>> THEN <<>> ELSE SubSeq(acc, 1, Len(acc) - 1))
                   ELSE IF seg = "." \/ seg = "" THEN acc
                   ELSE Append(acc, seg),
                   Tail(segs))

\* path.join(base, rel)
join(base, rel) == normalize(<<>>, base \o rel)

\* the path p lies inside the project root
InsideRoot(p) == startsWith(p, projectPath)

----------------------------------------------------------------------------
(* The file system *)

\* resources.ts:386, tools.ts:916   1024 * 1024
MaxFileSize == 1024 * 1024

\* a node of the file system.  type is what the directory entry reports
\* (entry.isFile / entry.isDirectory), stat whether fs.stat and fs.access of
\* the path succeed, readable whether fs.readFile (a file) or fs.readdir (a
\* directory) succeeds, size the st_size of a file and the length of its text
\* (one byte per character), json how JSON.parse takes the text, dependencies
\* and devDependencies the names declared under these keys of a manifest
File(size, lines, readable, json) ==
    [type |-> "file", size |-> size, lines |-> lines, readable |-> readable,
     json |-> json, stat |-> TRUE, dependencies |-> <<>>, devDependencies |-> <<>>]

Directory(readable) ==
    [type |-> "directory", size |-> 0, lines |-> <<>>, readable |-> readable,
     json |-> "none", stat |-> TRUE, dependencies |-> <<>>, devDependencies |-> <<>>]

\* an entry readdir still lists but fs.stat rejects: removed since the
\* listing, or a link whose target is gone
Stale == [File(0, <<>>, FALSE, "none") EXCEPT !.stat = FALSE]

\* a package.json that parses, with its two dependency maps
Manifest(dependencies, devDependencies) ==
    [File(20, <<"{}">>, TRUE, "valid") EXCEPT !.dependencies = dependencies,
                                              !.devDependencies = devDependencies]

\* the order in which fs.readdir returns the entries of a directory
ReaddirOrder ==
    <<"src", "a.ts", ".env", "node_modules", "big.log", "B.ts", "package.json",
      "secret.txt", ".github", "x.js", "proj", "home", "dist", "build",
      "coverage", "stale.ts", "package-lock.json", "yarn.lock",
      "b", "a", "A", "ab", "Ab", "ba">>

exists(p) == p \in DOMAIN fs

\* fs.access / fs.stat succeed
canStat(p) == exists(p) /\ fs[p].stat

\* fs.readFile succeeds
canReadFile(p) == exists(p) /\ fs[p].type = "file" /\ fs[p].readable

\* fs.readdir succeeds
canReaddir(p) == exists(p) /\ fs[p].type = "directory" /\ fs[p].readable

isEntryOf(p, name) == Append(p, name) \in DOMAIN fs

\* fs.readdir(p): the names of the entries of p
readdir(p) == SelectSeq(ReaddirOrder, LAMBDA name : isEntryOf(p, name))

BuildDirectories == {"node_modules", "dist", "build", "coverage"}

\* entry.name.startsWith('.') && !entry.name.startsWith('.git')
isHidden(name) ==
    /\ startsWith(Chars(name), <<".">>)
    /\ ~startsWith(Chars(name), <<".", "g", "i", "t">>)

\* the skip rule of navigateStructure and searchInDirectory
isSkipped(name) == isHidden(name) \/ name \in BuildDirectories

\* a project under /home/proj and one file next to it, outside the root
ProjectFS(bigSize, pkg, aReadable, srcListable, aLines, bLines) ==
    LET paths ==
          { <<"home">>, <<"home", "secret.txt">>, projectPath,
            projectPath \o <<"src">>, projectPath \o <<"src", "a.ts">>,
            projectPath \o <<"src", "B.ts">>,
            projectPath \o <<"big.log">>, projectPath \o <<".env">>,
            projectPath \o <<"node_modules">>,
            projectPath \o <<"node_modules", "x.js">> }
          \cup (IF pkg = "missing" THEN {} ELSE {projectPath \o <<"package.json">>})
    IN  [p \in paths |->
           CASE p = <<"home", "secret.txt">>          -> File(6, <<"A">>, TRUE, "none")
             [] p = projectPath \o <<"src", "a.ts">>   -> File(12, aLines, aReadable, "none")
             [] p = projectPath \o <<"src", "B.ts">>   -> File(5, bLines, TRUE, "none")
             [] p = projectPath \o <<"big.log">>       -> File(bigSize, <<"ab", "b">>, TRUE, "none")
             [] p = projectPath \o <<".env">>          -> File(3, <<"a">>, TRUE, "none")
             [] p = projectPath \o <<"node_modules", "x.js">> -> File(4, <<"a">>, TRUE, "none")
             [] p = projectPath \o <<"package.json">>  -> File(20, <<"{}">>, TRUE, pkg)
             [] p = projectPath \o <<"src">>           -> Directory(srcListable)
             [] OTHER                                  -> Directory(TRUE)]

FileSizes == {12, MaxFileSize, MaxFileSize + 1}

PackageStates == {"missing", "malformed", "valid"}

\* the most entries a dependency map of the manifest declares
MaxDeps == 2

DependencyNames == <<"lodash", "express", "react", "fastify">>

DevDependencyNames == <<"jest", "eslint", "typescript", "prettier">>

NoManifest == [state |-> "missing", dependencies |-> <<>>, devDependencies |-> <<>>]

\* package.json: absent, not JSON, or declaring N and M dependencies
ManifestChoices ==
    {NoManifest, [NoManifest EXCEPT !.state = "malformed"]}
    \cup {[state |-> "valid",
           dependencies |-> SubSeq(DependencyNames, 1, n),
           devDependencies |-> SubSeq(DevDependencyNames, 1, m)] :
             n \in 0..MaxDeps, m \in 0..MaxDeps}

\* the length of big.log: short, exactly the prompt ceiling, one more
TextSizes == {12, 2000, 2001}

RootStates == {"listable", "unlistable", "missing"}

\* a project under /home/proj with a hidden file, a .github directory, the
\* build directories node_modules and coverage, and optionally a stale entry,
\* a manifest and a lock file; the root itself may be unlistable or missing
ProjectTree(root, srcListable, stale, manifest, lock, bigSize) ==
    LET below ==
          { <<"src">>, <<"src", "a.ts">>, <<"src", "B.ts">>, <<"big.log">>,
            <<".env">>, <<".github">>, <<".github", "x.js">>,
            <<"node_modules">>, <<"node_modules", "x.js">>,
            <<"coverage">>, <<"coverage", "a.ts">> }
          \cup (IF stale THEN {<<"stale.ts">>} ELSE {})
          \cup (IF manifest.state = "missing" THEN {} ELSE {<<"package.json">>})
          \cup (IF lock THEN {<<"package-lock.json">>} ELSE {})
        paths ==
          {<<"home">>} \cup (IF root = "missing" THEN {}
                             ELSE {projectPath} \cup {projectPath \o r : r \in below})
    IN  [p \in paths |->
           CASE p = projectPath                       -> Directory(root = "listable")
             [] p = projectPath \o <<"src">>          -> Directory(srcListable)
             [] p = projectPath \o <<"src", "a.ts">>  -> File(12, <<"ab", "b">>, TRUE, "none")
             [] p = projectPath \o <<"src", "B.ts">>  -> File(5, <<"b">>, TRUE, "none")
             [] p = projectPath \o <<"big.log">>      -> File(bigSize, <<"ab", "b">>, TRUE, "none")
             [] p = projectPath \o <<".env">>         -> File(3, <<"a">>, TRUE, "none")
             [] p = projectPath \o <<".github", "x.js">>      -> File(7, <<"a">>, TRUE, "none")
             [] p = projectPath \o <<"node_modules", "x.js">> -> File(4, <<"a">>, TRUE, "none")
             [] p = projectPath \o <<"coverage", "a.ts">>     -> File(9, <<"a">>, TRUE, "none")
             [] p = projectPath \o <<"stale.ts">>     -> Stale
             [] p = projectPath \o <<"package.json">> ->
                   IF manifest.state = "valid"
                   THEN Manifest(manifest.dependencies, manifest.devDependencies)
                   ELSE File(20, <<"{">>, TRUE, "malformed")
             [] p = projectPath \o <<"package-lock.json">> -> File(2, <<"{}">>, TRUE, "valid")
             [] OTHER                                 -> Directory(TRUE)]

----------------------------------------------------------------------------
(* Errors and outcomes *)

NoError == [name |-> "", message |-> <<>>, oid |-> 0]

NoPayload == [what |-> "", from |-> <<>>, data |-> <<>>]

\* an operation's promise: resolved with a payload or rejected with an error
Return(payload) == [kind |-> "ok", payload |-> payload, error |-> NoError]

Throw(error) == [kind |-> "error", payload |-> NoPayload, error |-> error]

NoOutcome == [kind |-> "none", payload |-> NoPayload, error |-> NoError]

\* middleware.ts:168-187; oid is the identity of the error object
ValidationError(message) == [name |-> "ValidationError", message |-> message, oid |-> 1]

NotFoundError(message) == [name |-> "NotFoundError", message |-> message, oid |-> 1]

PermissionError(message) == [name |-> "PermissionError", message |-> message, oid |-> 1]

\* new Error(message), and the errors thrown by fs and JSON.parse
Error(message) == [name |-> "Error", message |-> message, oid |-> 1]

\* mutant: the NotFound branch falls through to the generic message
normalizedMessageNoNotFound(error) ==
    IF error.name = "ValidationError" THEN <<"Invalid request: ">> \o error.message
    ELSE IF error.name = "PermissionError" THEN <<"Permission denied: ">> \o error.message
    ELSE <<"Internal server error">>

\* middleware.ts:68-81   the message of the error that is rethrown
normalizedMessage(error) ==
    IF error.name = "ValidationError" THEN <<"Invalid request: ">> \o error.message
    ELSE IF error.name = "NotFoundError" THEN <<"Resource not found: ">> \o error.message
    ELSE IF error.name = "PermissionError" THEN <<"Permission denied: ">> \o error.message
    ELSE <<"Internal server error">>

\* middleware.ts:54-83   operation().catch(error => { ... throw new Error(...) })
errorHandlingMiddleware(outcome) ==
    IF outcome.kind = "ok" THEN outcome
    ELSE Throw([name |-> "Error", message |-> normalizedMessage(outcome.error),
                oid |-> outcome.error.oid + 1])

----------------------------------------------------------------------------
(* ProjectContextResources, resources.ts *)

OverviewUri == <<"context://project/overview">>

StructureUri == <<"context://project/structure">>

DependenciesUri == <<"context://project/dependencies">>

FileUriPrefix == <<"context://file/">>

ServerInfoUri == <<"context://server/info">>

\* mutant: the limit made exclusive, a file of exactly 1 MiB is refused
fileTooLargeInclusive(size) == size >= MaxFileSize

\* resources.ts:386   stats.size > 1024 * 1024
fileTooLarge(size) == size > MaxFileSize

\* resources.ts:370-403
getFileContent(filePath) ==
    LET fullPath == join(projectPath, filePath) IN
    IF /\ canStat(fullPath)
       /\ fs[fullPath].type # "directory"
       /\ ~fileTooLarge(fs[fullPath].size)
       /\ canReadFile(fullPath)
    THEN Return([what |-> "file", from |-> fullPath, data |-> fs[fullPath].lines])
    ELSE Throw(NotFoundError(<<"Cannot read file: ">> \o filePath))

\* mutant: the entries of a directory enumerated although readdir threw
listedEntriesDespiteFailure(dir) == readdir(dir)

\* the entries a traversal's loop runs over: those fs.readdir returned, none
\* when it threw (the catch around the loop is entered before the first turn)
listedEntries(dir) == IF canReaddir(dir) THEN readdir(dir) ELSE <<>>

RECURSIVE countFiles(_, _)
RECURSIVE countEntries(_, _, _)
\* resources.ts:419-442   the loop of countFiles over the entries of dir; the
\* catch at 443 ends it at the first fs.stat that throws, after fileCount++
countEntries(dir, entries, stats) ==
    IF entries = <<>> THEN stats
    ELSE LET name     == Head(entries)
             fullPath == Append(dir, name)
         IN
         IF isHidden(name) THEN countEntries(dir, Tail(entries), stats)
         ELSE IF fs[fullPath].type = "directory"
         THEN (IF name \in {"node_modules", "dist", "build", "coverage"}
               THEN countEntries(dir, Tail(entries), stats)
               ELSE countEntries(dir, Tail(entries), countFiles(fullPath, stats)))
         ELSE IF ~canStat(fullPath)
         THEN [stats EXCEPT !.fileCount = @ + 1]
         ELSE countEntries(dir, Tail(entries),
                           [fileCount   |-> stats.fileCount + 1,
                            sizeInBytes |-> stats.sizeInBytes + fs[fullPath].size])

\* resources.ts:415-446   fileCount and sizeInBytes after countFiles(dir)
countFiles(dir, stats) == countEntries(dir, listedEntries(dir), stats)

\* resources.ts:407-455
getProjectStats(path) == countFiles(path, [fileCount |-> 0, sizeInBytes |-> 0])

\* resources.ts:458-472   languageMap; of its thirteen extensions only those
\* of the names in ReaddirOrder are spelled out
languageMap(ext) ==
    CASE ext = <<".", "t", "s">> -> "TypeScript"
      [] ext = <<".", "j", "s">> -> "JavaScript"
      [] OTHER                   -> ""

\* resources.ts:493   extensionCounts[ext] = (extensionCounts[ext] || 0) + 1,
\* the counts kept in the order in which their keys were inserted
countExtension(counts, ext) ==
    IF \E i \in DOMAIN counts : counts[i].ext = ext
    THEN [i \in DOMAIN counts |->
            IF counts[i].ext = ext THEN [counts[i] EXCEPT !.count = @ + 1] ELSE counts[i]]
    ELSE Append(counts, [ext |-> ext, count |-> 1])

RECURSIVE countExtensions(_, _)
RECURSIVE countExtensionEntries(_, _, _)
\* resources.ts:480-496   the loop of countExtensions over the entries of dir
countExtensionEntries(dir, entries, counts) ==
    IF entries = <<>> THEN counts
    ELSE LET name     == Head(entries)
             fullPath == Append(dir, name)
         IN
         IF startsWith(Chars(name), <<".">>)
         THEN countExtensionEntries(dir, Tail(entries), counts)
         ELSE IF fs[fullPath].type = "directory" /\ name \notin {"node_modules", "dist", "build"}
         THEN countExtensionEntries(dir, Tail(entries), countExtensions(fullPath, counts))
         ELSE IF fs[fullPath].type = "file" /\ languageMap(extname(name)) # ""
         THEN countExtensionEntries(dir, Tail(entries), countExtension(counts, extname(name)))
         ELSE countExtensionEntries(dir, Tail(entries), counts)

\* resources.ts:476-500
countExtensions(dir, counts) == countExtensionEntries(dir, listedEntries(dir), counts)

\* resources.ts:457-509   the extension counted most often, the one inserted
\* first among equals (Array.prototype.sort is stable), 'Unknown' when none
detectPrimaryLanguage(path) ==
    LET counts == countExtensions(path, <<>>) IN
    IF counts = <<>> THEN "Unknown"
    ELSE LET first == CHOOSE i \in DOMAIN counts :
                         /\ \A j \in DOMAIN counts : counts[j].count <= counts[i].count
                         /\ \A j \in 1..(i - 1) : counts[j].count < counts[i].count
         IN  languageMap(counts[first].ext)

\* mutant: whatever text package.json holds is taken as a parsed manifest
readPackageInfoTakesAnyText(path) ==
    LET packageJsonPath == join(path, <<"package.json">>) IN
    IF canReadFile(packageJsonPath)
    THEN [parsed |-> TRUE,
          dependencies |-> fs[packageJsonPath].dependencies,
          devDependencies |-> fs[packageJsonPath].devDependencies]
    ELSE [parsed |-> FALSE, dependencies |-> <<>>, devDependencies |-> <<>>]

\* resources.ts:280-290   JSON.parse(readFile(package.json)), {} when that throws
readPackageInfo(path) ==
    LET packageJsonPath == join(path, <<"package.json">>) IN
    IF canReadFile(packageJsonPath) /\ fs[packageJsonPath].json = "valid"
    THEN [parsed |-> TRUE,
          dependencies |-> fs[packageJsonPath].dependencies,
          devDependencies |-> fs[packageJsonPath].devDependencies]
    ELSE [parsed |-> FALSE, dependencies |-> <<>>, devDependencies |-> <<>>]

\* some element of the sequence is x
contains(seq, x) == \E i \in DOMAIN seq : seq[i] = x

\* resources.ts:511-530   the first marker package among both dependency maps
detectFramework(packageInfo) ==
    LET dependencies == packageInfo.dependencies \o packageInfo.devDependencies IN
    IF contains(dependencies, "react") THEN "React"
    ELSE IF contains(dependencies, "express") THEN "Express.js"
    ELSE IF contains(dependencies, "fastify") THEN "Fastify"
    ELSE "undefined"

\* resources.ts:532-550   by the files of the project root
detectPackageManager(path) ==
    IF ~canReaddir(path) THEN "unknown"
    ELSE LET files == readdir(path) IN
         IF contains(files, "package-lock.json") THEN "npm"
         ELSE IF contains(files, "yarn.lock") THEN "yarn"
         ELSE "unknown"

\* resources.ts:552-581   the .git probe
getGitInfo(path) ==
    IF canStat(join(path, <<".git">>)) THEN "Local Git Repository" ELSE "undefined"

\* resources.ts:272-317   the manifest is taken to declare a name, a version
\* and a description whenever it parses
getProjectOverview(path) ==
    LET packageInfo == readPackageInfo(path)
        stats       == getProjectStats(path)
    IN  [name           |-> IF packageInfo.parsed THEN "declared name"
                            ELSE path[Len(path)],
         version        |-> IF packageInfo.parsed THEN "declared version" ELSE "0.0.0",
         description    |-> IF packageInfo.parsed THEN "declared description"
                            ELSE "No description available",
         path           |-> path,
         language       |-> detectPrimaryLanguage(path),
         framework      |-> detectFramework(packageInfo),
         packageManager |-> detectPackageManager(path),
         fileCount      |-> stats.fileCount,
         sizeInBytes    |-> stats.sizeInBytes,
         gitRepository  |-> getGitInfo(path)]

\* path.relative(basePath, currentPath) for a path at or below basePath
relative(basePath, currentPath) ==
    SubSeq(currentPath, Len(basePath) + 1, Len(currentPath))

RECURSIVE localeComparePaths(_, _)
\* localeCompare of two relative paths, segment by segment
localeComparePaths(a, b) ==
    IF a = <<>> /\ b = <<>> THEN 0
    ELSE IF a = <<>> THEN -1
    ELSE IF b = <<>> THEN 1
    ELSE LET c == localeCompare(Head(a), Head(b)) IN
         IF c # 0 THEN c ELSE localeComparePaths(Tail(a), Tail(b))

\* mutant: names compared code unit by code unit
treeBeforeByCodeUnits(a, b) ==
    IF a.type # b.type THEN a.type = "directory"
    ELSE compareCodeUnits(Chars(a.name[Len(a.name)]), Chars(b.name[Len(b.name)])) < 0

\* resources.ts:622-627   the comparator of node.children.sort
treeBefore(a, b) ==
    IF a.type # b.type THEN a.type = "directory"
    ELSE localeComparePaths(a.name, b.name) < 0

RECURSIVE insertNode(_, _)
insertNode(sorted, node) ==
    IF sorted = <<>> THEN <<node>>
    ELSE IF treeBefore(node, Head(sorted)) THEN <<node>> \o sorted
    ELSE <<Head(sorted)>> \o insertNode(Tail(sorted), node)

RECURSIVE sortChildren(_)
\* Array.prototype.sort (stable) with the comparator above
sortChildren(children) ==
    IF children = <<>> THEN <<>>
    ELSE insertNode(sortChildren(SubSeq(children, 1, Len(children) - 1)),
                    children[Len(children)])

RECURSIVE buildFileTree(_, _)
RECURSIVE buildChildren(_, _, _, _)
\* resources.ts:607-619   the loop over the entries of currentPath: a child
\* whose buildFileTree throws ends the loop with the children pushed so far
buildChildren(currentPath, basePath, entries, children) ==
    IF entries = <<>> THEN [threw |-> FALSE, children |-> children]
    ELSE LET name == Head(entries) IN
         IF isHidden(name) \/ name \in {"node_modules", "dist", "build", "coverage"}
         THEN buildChildren(currentPath, basePath, Tail(entries), children)
         ELSE LET child == buildFileTree(Append(currentPath, name), basePath) IN
              IF child.kind = "error"
              THEN [threw |-> TRUE, children |-> children]
              ELSE buildChildren(currentPath, basePath, Tail(entries),
                                 Append(children, child.payload))

\* resources.ts:583-636   fs.stat of currentPath is outside the try; readdir,
\* the loop and the sort are inside it, and the catch at 628 only logs
buildFileTree(currentPath, basePath) ==
    IF ~canStat(currentPath) THEN Throw(Error(<<"ENOENT">>))
    ELSE LET relativePath == relative(basePath, currentPath)
             name == IF relativePath # <<>> THEN relativePath
                     ELSE <<currentPath[Len(currentPath)]>>
         IN
         IF fs[currentPath].type = "file"
         THEN Return([path |-> relativePath, type |-> "file", name |-> name,
                      extension |-> extname(name[Len(name)]),
                      size |-> fs[currentPath].size])
         ELSE IF ~canReaddir(currentPath)
         THEN Return([path |-> relativePath, type |-> "directory", name |-> name])
         ELSE LET built == buildChildren(currentPath, basePath,
                                         readdir(currentPath), <<>>)
              IN  Return([path |-> relativePath, type |-> "directory", name |-> name,
                          children |-> IF built.threw THEN built.children
                                       ELSE sortChildren(built.children)])

\* resources.ts:322-340
getProjectStructure(path) == buildFileTree(path, path)

\* one Dependency entry per declared name
dependencyEntries(names, type) ==
    [i \in DOMAIN names |-> [name |-> names[i], type |-> type]]

\* resources.ts:638-705
analyzeNpmDependencies(path) ==
    LET packageJson == readPackageInfo(path) IN
    IF packageJson.parsed
    THEN LET dependencies    == dependencyEntries(packageJson.dependencies, "production")
             devDependencies == dependencyEntries(packageJson.devDependencies, "development")
         IN  [packageManager  |-> "npm",
              dependencies    |-> dependencies,
              devDependencies |-> devDependencies,
              totalCount      |-> Len(dependencies) + Len(devDependencies),
              lockFileExists  |-> canStat(join(path, <<"package-lock.json">>))]
    ELSE [packageManager |-> "npm", dependencies |-> <<>>, devDependencies |-> <<>>,
          totalCount |-> 0, lockFileExists |-> FALSE]

\* resources.ts:345-365
getProjectDependencies(path) ==
    LET packageManager == detectPackageManager(path) IN
    IF packageManager = "npm" THEN analyzeNpmDependencies(path)
    ELSE [packageManager |-> packageManager, dependencies |-> <<>>,
          devDependencies |-> <<>>, totalCount |-> 0, lockFileExists |-> FALSE]

\* resources.ts:209-266   the operation readResource hands to the middleware
readResourceOperation(uri) ==
    IF uri = OverviewUri
    THEN Return([what |-> "overview", from |-> projectPath,
                 data |-> getProjectOverview(projectPath)])
    ELSE IF uri = StructureUri
    THEN LET structure == getProjectStructure(projectPath) IN
         IF structure.kind = "ok"
         THEN Return([what |-> "structure", from |-> projectPath,
                      data |-> structure.payload])
         ELSE structure
    ELSE IF uri = DependenciesUri
    THEN Return([what |-> "dependencies", from |-> projectPath,
                 data |-> getProjectDependencies(projectPath)])
    ELSE IF startsWith(uri, FileUriPrefix)
    THEN getFileContent(Tail(uri))
    ELSE Throw(NotFoundError(<<"Resource not found: ">> \o uri))

\* resources.ts:197-267
readResource(uri) == errorHandlingMiddleware(readResourceOperation(uri))

\* the path readResource resolves for its fs calls: the file of a file URI,
\* the root from which the passes of the three project resources walk down
readResourceAccessed(uri) ==
    IF uri \in {OverviewUri, StructureUri, DependenciesUri} THEN {projectPath}
    ELSE IF startsWith(uri, FileUriPrefix) THEN {join(projectPath, Tail(uri))}
    ELSE {}

----------------------------------------------------------------------------
(* ProjectContextTools, tools.ts *)

ToolNames == {"analyze_dependencies", "get_recent_changes", "navigate_structure",
              "search_project"}

\* tools.ts:725-737   the tools' own detection: npm unless another lock file
toolsDetectPackageManager(path) ==
    IF ~canReaddir(path) THEN "unknown"
    ELSE LET files == readdir(path) IN
         IF contains(files, "package-lock.json") THEN "npm"
         ELSE IF contains(files, "yarn.lock") THEN "yarn"
         ELSE "npm"

\* mutant: development dependencies counted whatever the parameter says
includeDevDependenciesAlways(params) == TRUE

\* tools.ts:385   includeDevDependencies = true unless the caller passed false
includeDevDependencies(params) == params.includeDevDependencies # "false"

\* tools.ts:387   outputFormat = 'summary' when the caller passed none
outputFormatOf(params) ==
    IF params.outputFormat = "undefined" THEN "summary" ELSE params.outputFormat

\* tools.ts:739-751   the figures the summary text prints
generateDependencySummary(analysis) ==
    [packageManager |-> analysis.packageManager,
     total          |-> analysis.totalDependencies,
     production     |-> analysis.productionDependencies,
     development    |-> analysis.developmentDependencies]

\* the names of the entries of one type, in order
namesOfType(entries, type) ==
    LET kept == SelectSeq(entries, LAMBDA e : e.type = type) IN
    [i \in DOMAIN kept |-> kept[i].name]

\* tools.ts:762-796   the summary followed by the two lists
formatDetailedDependencyReport(analysis) ==
    [summary     |-> generateDependencySummary(analysis),
     production  |-> namesOfType(analysis.dependencies, "production"),
     development |-> namesOfType(analysis.dependencies, "development")]

\* tools.ts:404-476   the result built from a parsed package.json and the
\* text rendered from it in the requested format
dependencyAnalysis(params, packageJson) ==
    LET outputFormat == outputFormatOf(params)
        development  == IF includeDevDependencies(params)
                        THEN packageJson.devDependencies ELSE <<>>
        analysis ==
          [packageManager          |-> toolsDetectPackageManager(projectPath),
           totalDependencies       |-> Len(packageJson.dependencies) + Len(development),
           productionDependencies  |-> Len(packageJson.dependencies),
           developmentDependencies |-> Len(development),
           dependencies            |-> IF outputFormat = "summary" THEN <<>>
                                       ELSE dependencyEntries(packageJson.dependencies,
                                                              "production")
                                            \o dependencyEntries(development, "development")]
    IN  [format |-> outputFormat,
         text   |-> IF outputFormat = "json" THEN analysis
                    ELSE IF outputFormat = "detailed"
                    THEN formatDetailedDependencyReport(analysis)
                    ELSE generateDependencySummary(analysis)]

\* mutant: the catch of analyzeDependencies lets the fs error through
analyzeDependenciesRethrow(params) ==
    LET packageJsonPath == join(projectPath, <<"package.json">>) IN
    IF canReadFile(packageJsonPath) /\ fs[packageJsonPath].json = "valid"
    THEN Return([what |-> "dependency analysis", from |-> packageJsonPath,
                 data |-> dependencyAnalysis(params, fs[packageJsonPath])])
    ELSE Throw(Error(<<"ENOENT">>))

\* tools.ts:380-495
analyzeDependencies(params) ==
    LET packageJsonPath == join(projectPath, <<"package.json">>) IN
    IF canReadFile(packageJsonPath) /\ fs[packageJsonPath].json = "valid"
    THEN Return([what |-> "dependency analysis", from |-> packageJsonPath,
                 data |-> dependencyAnalysis(params, fs[packageJsonPath])])
    ELSE Throw(ValidationError(
           <<"Unable to analyze dependencies. Ensure package.json exists and is valid.">>))

\* tools.ts:500-554
getRecentChanges(params) ==
    Return([what |-> "recent changes", from |-> <<>>, data |-> <<>>])

\* tools.ts:576   path ? join(projectPath, path) : projectPath
targetPathOf(path) == IF path # <<>> THEN join(projectPath, path) ELSE projectPath

\* tools.ts:590-625   the entries that become items, in readdir order
navigationEntries(targetPath, params) ==
    SelectSeq(readdir(targetPath),
              LAMBDA name :
                 LET entry == fs[Append(targetPath, name)] IN
                 /\ ~isSkipped(name)
                 /\ ~(/\ params.filterExtensions.defined
                      /\ entry.type = "file"
                      /\ extname(name) \notin params.filterExtensions.exts)
                 /\ ~(~params.includeFiles /\ entry.type = "file"))

\* tools.ts:628-633   the comparator of result.contents.sort
navigationBefore(dir, a, b) ==
    LET ta == fs[Append(dir, a)].type
        tb == fs[Append(dir, b)].type
    IN  IF ta # tb THEN ta = "directory" ELSE localeCompare(a, b) < 0

RECURSIVE insertSorted(_, _, _)
insertSorted(dir, sorted, name) ==
    IF sorted = <<>> THEN <<name>>
    ELSE IF navigationBefore(dir, name, Head(sorted)) THEN <<name>> \o sorted
    ELSE <<Head(sorted)>> \o insertSorted(dir, Tail(sorted), name)

RECURSIVE sortEntries(_, _)
\* Array.prototype.sort (stable) with the comparator above
sortEntries(dir, names) ==
    IF names = <<>> THEN <<>>
    ELSE insertSorted(dir, sortEntries(dir, SubSeq(names, 1, Len(names) - 1)),
                      names[Len(names)])

\* tools.ts:559-653
navigateStructure(params) ==
    LET targetPath == targetPathOf(params.path) IN
    IF ~canStat(targetPath)
    THEN Throw(NotFoundError(<<"Path not found or inaccessible: ">> \o params.path))
    ELSE IF fs[targetPath].type # "directory"
    THEN Return([what |-> "navigation: file", from |-> targetPath, data |-> <<>>])
    ELSE IF \/ ~canReaddir(targetPath)
            \/ \E i \in DOMAIN readdir(targetPath) :
                  /\ ~isSkipped(readdir(targetPath)[i])
                  /\ ~canStat(Append(targetPath, readdir(targetPath)[i]))
    THEN Throw(NotFoundError(<<"Path not found or inaccessible: ">> \o params.path))
    ELSE Return([what |-> "navigation: directory", from |-> targetPath,
                 data |-> sortEntries(targetPath, navigationEntries(targetPath, params))])

\* the paths navigateStructure hands to fs.stat and fs.readdir
navigateStructureAccessed(params) ==
    LET targetPath == targetPathOf(params.path) IN
    {targetPath} \cup
    (IF canReaddir(targetPath)
     THEN {Append(targetPath, readdir(targetPath)[i]) :
             i \in {j \in DOMAIN readdir(targetPath) : ~isSkipped(readdir(targetPath)[j])}}
     ELSE {})

\* mutant: only the type of the query is looked at, '' passes
queryMissingUnlessString(query) == query.type # "string"

\* tools.ts:347 and 670   !query || typeof query !== 'string'
queryMissing(query) == query.type # "string" \/ query.value = ""

\* tools.ts:658-721; the walk itself is SearchStep below: it catches every
\* error of its fs calls, so the catch at 714-720 has nothing to catch
searchProject(params) ==
    IF queryMissing(params.query)
    THEN Throw(ValidationError(<<"Search query is required">>))
    ELSE Return([what |-> "search result", from |-> projectPath, data |-> <<>>])

\* mutant: an unknown tool name reported as a malformed request
unknownToolAsValidation(toolName) ==
    Throw(ValidationError(<<"Unknown tool: ", toolName>>))

\* tools.ts:371-372   default: throw new NotFoundError(`Unknown tool: ${toolName}`)
unknownTool(toolName) == Throw(NotFoundError(<<"Unknown tool: ", toolName>>))

\* tools.ts:326-373   the operation executeTool hands to the middleware
executeToolOperation(toolName, parameters) ==
    IF toolName = "analyze_dependencies" THEN analyzeDependencies(parameters)
    ELSE IF toolName = "get_recent_changes" THEN getRecentChanges(parameters)
    ELSE IF toolName = "navigate_structure" THEN navigateStructure(parameters)
    ELSE IF toolName = "search_project"
    THEN (IF queryMissing(parameters.query)
          THEN Throw(ValidationError(<<"Search query is required">>))
          ELSE searchProject(parameters))
    ELSE unknownTool(toolName)

\* tools.ts:307-375
executeTool(toolName, parameters) ==
    errorHandlingMiddleware(executeToolOperation(toolName, parameters))

\* the tool whose body executeTool enters
toolEntered(toolName) == IF toolName \in ToolNames THEN toolName ELSE ""

----------------------------------------------------------------------------
(* ProjectContextPrompts, prompts.ts.  The text of a prompt is the sequence *)
(* of its sections; a section carries the values interpolated into it.     *)

RegisteredPrompts == {"project_overview", "code_analysis", "debugging_assistance",
                      "architecture_review"}

\* the argument bag: file_path ('' when absent) and the comma-separated
\* context_files, already split
NoArgs == [file_path |-> <<>>, context_files |-> <<>>]

\* data[name] of a parsed JSON object, undefined for a key it does not have
field(data, name) == IF name \in DOMAIN data THEN data[name] ELSE "undefined"

\* prompts.ts:297-308 and alike   one user message holding the text
PromptResponse(sections) ==
    Return([what |-> "prompt", from |-> <<>>,
            data |-> [messages |-> <<[role |-> "user", text |-> sections]>>]])

\* content.length of the text a file read returned
textLength(fileContent) == fs[fileContent.payload.from].size

RECURSIVE formatStructureForPrompt(_, _, _)
RECURSIVE formatChildrenForPrompt(_, _, _)
formatChildrenForPrompt(children, maxDepth, currentDepth) ==
    IF children = <<>> THEN <<>>
    ELSE formatStructureForPrompt(Head(children), maxDepth, currentDepth)
         \o formatChildrenForPrompt(Tail(children), maxDepth, currentDepth)

\* prompts.ts:729-768   one line per node down to maxDepth, the first ten
\* children of a directory and a line counting the rest
formatStructureForPrompt(structure, maxDepth, currentDepth) ==
    IF currentDepth >= maxDepth THEN <<>>
    ELSE LET own      == IF currentDepth > 0
                         THEN <<[name |-> structure.name, type |-> structure.type]>>
                         ELSE <<>>
             children == IF "children" \in DOMAIN structure /\ structure.type = "directory"
                         THEN structure.children ELSE <<>>
             shown    == SubSeq(children, 1, IF Len(children) > 10 THEN 10 ELSE Len(children))
         IN  own \o formatChildrenForPrompt(shown, maxDepth, currentDepth + 1)
                 \o (IF Len(children) > 10 THEN <<[more |-> Len(children) - 10]>> ELSE <<>>)

\* prompts.ts:266-270 and 598-602   the dependency figures as interpolated
dependenciesSummary(dependenciesData) ==
    [kind           |-> "dependencies",
     total          |-> field(dependenciesData, "totalDependencies"),
     production     |-> field(dependenciesData, "productionDependencies"),
     development    |-> field(dependenciesData, "developmentDependencies"),
     packageManager |-> field(dependenciesData, "packageManager")]

\* prompts.ts:228-309   the three reads are not guarded
generateProjectOverview(args) ==
    LET projectOverview     == readResource(OverviewUri)
        projectStructure    == readResource(StructureUri)
        projectDependencies == readResource(DependenciesUri)
    IN  IF projectOverview.kind = "error" THEN projectOverview
        ELSE IF projectStructure.kind = "error" THEN projectStructure
        ELSE IF projectDependencies.kind = "error" THEN projectDependencies
        ELSE PromptResponse(
               << [kind      |-> "project details",
                   name      |-> projectOverview.payload.data.name,
                   language  |-> projectOverview.payload.data.language,
                   fileCount |-> projectOverview.payload.data.fileCount],
                  dependenciesSummary(projectDependencies.payload.data),
                  [kind  |-> "structure",
                   lines |-> formatStructureForPrompt(projectStructure.payload.data, 2, 0)],
                  [kind |-> "analysis request"] >>)

\* prompts.ts:337-350 and 455-469   the overview read, dropped without a
\* word when it fails
projectContextSection(projectOverview) ==
    IF projectOverview.kind = "error" THEN <<>>
    ELSE <<[kind     |-> "project context",
            language |-> projectOverview.payload.data.language]>>

\* prompts.ts:314-432   the text of the file goes in whole
generateCodeAnalysis(args) ==
    LET filePath == args.file_path
        fileContent == readResource(FileUriPrefix \o filePath)
    IN  PromptResponse(
           projectContextSection(readResource(OverviewUri))
           \o (IF filePath = <<>>
                THEN <<[kind |-> "note", text |-> "No specific file provided"]>>
                ELSE IF fileContent.kind = "error"
                THEN <<[kind |-> "note", text |-> "Could not load file content",
                        file |-> filePath]>>
                ELSE <<[kind |-> "file content", file |-> filePath,
                        chars |-> textLength(fileContent), truncated |-> FALSE]>>)
           \o <<[kind |-> "analysis request"]>>)

\* prompts.ts:488-504   content.slice(0, 2000) and the marker
debugFileSection(file) ==
    LET fileContent == readResource(FileUriPrefix \o file) IN
    IF fileContent.kind = "error"
    THEN [kind |-> "note", text |-> "Could not load file content", file |-> file]
    ELSE LET length == textLength(fileContent) IN
         [kind |-> "file content", file |-> file,
          chars |-> IF length > 2000 THEN 2000 ELSE length,
          truncated |-> length > 2000]

\* prompts.ts:437-551   at most three context files
generateDebuggingAssistance(args) ==
    LET contextFiles == args.context_files
        files == SubSeq(contextFiles, 1, IF Len(contextFiles) > 3 THEN 3
                                         ELSE Len(contextFiles))
    IN  PromptResponse(
           projectContextSection(readResource(OverviewUri))
           \o [i \in DOMAIN files |-> debugFileSection(files[i])]
           \o <<[kind |-> "debugging request"]>>)

\* prompts.ts:556-724   the three reads share one try; its catch adds the note
generateArchitectureReview(args) ==
    LET projectOverview     == readResource(OverviewUri)
        projectStructure    == readResource(StructureUri)
        projectDependencies == readResource(DependenciesUri)
    IN  PromptResponse(
           (IF \/ projectOverview.kind = "error"
               \/ projectStructure.kind = "error"
               \/ projectDependencies.kind = "error"
            THEN <<[kind |-> "note", text |-> "Project context not available"]>>
            ELSE << [kind      |-> "project overview",
                     name      |-> projectOverview.payload.data.name,
                     language  |-> projectOverview.payload.data.language,
                     fileCount |-> projectOverview.payload.data.fileCount],
                    [kind  |-> "structure",
                     lines |-> formatStructureForPrompt(projectStructure.payload.data, 3, 0)],
                    dependenciesSummary(projectDependencies.payload.data) >>)
           \o <<[kind |-> "review request"]>>)

\* prompts.ts:206-221   the operation executePrompt hands to the middleware
executePromptOperation(promptName, args) ==
    IF promptName = "project_overview" THEN generateProjectOverview(args)
    ELSE IF promptName = "code_analysis" THEN generateCodeAnalysis(args)
    ELSE IF promptName = "debugging_assistance" THEN generateDebuggingAssistance(args)
    ELSE IF promptName = "architecture_review" THEN generateArchitectureReview(args)
    ELSE Throw(ValidationError(<<"Unknown prompt: ", promptName>>))

\* prompts.ts:189-223
executePrompt(promptName, args) ==
    errorHandlingMiddleware(executePromptOperation(promptName, args))

----------------------------------------------------------------------------
(* ProjectContextMCPServer.setupHandlers, server.ts:63-245 *)

\* server.ts:83-123
callToolHandler(name) ==
    errorHandlingMiddleware(
       IF name = "health_check"
       THEN Return([what |-> "health", from |-> <<>>, data |-> <<>>])
       ELSE Throw(NotFoundError(<<"Unknown tool: ", name>>)))

\* server.ts:155-197
readResourceHandler(uri) ==
    errorHandlingMiddleware(
       IF uri = ServerInfoUri
       THEN Return([what |-> "server info", from |-> <<>>, data |-> <<>>])
       ELSE readResource(uri))

\* server.ts:126-152 (ListResources), 65-80 (ListTools), 200-211 (ListPrompts)
listHandler(method) ==
    IF method = "ListResources"
    THEN errorHandlingMiddleware(
            errorHandlingMiddleware(
               Return([what |-> "resources", from |-> <<>>, data |-> <<>>])))
    ELSE Return([what |-> method, from |-> <<>>, data |-> <<>>])

\* server.ts:214-242
getPromptHandler(name) ==
    IF name = "server_status"
    THEN Return([what |-> "server status", from |-> <<>>, data |-> <<>>])
    ELSE Throw(Error(<<"Unknown prompt: ", name>>))

----------------------------------------------------------------------------
(* Requests *)

MaxPathLen == 2

Segments == {"src", "a.ts", "..", "big.log", "secret.txt"}

RECURSIVE SeqsUpTo(_, _)
SeqsUpTo(S, n) ==
    IF n = 0 THEN {<<>>}
    ELSE LET shorter == SeqsUpTo(S, n - 1)
         IN  shorter \cup {Append(q, x) : q \in shorter, x \in S}

\* the relative paths a caller may put in a file URI or in navigate_structure
RelPaths == SeqsUpTo(Segments, MaxPathLen)

UriHeads == {"context://project/overview", "context://project/structure",
             "context://project/dependencies", "context://server/info",
             "context://file/", "context://file", "context://project/unknown"}

Uris == {<<>>} \cup {<<h>> \o r : h \in UriHeads, r \in RelPaths}

NoFilter == [defined |-> FALSE, exts |-> {}]

NoQuery == [type |-> "undefined", value |-> ""]

Queries == {NoQuery, [type |-> "string", value |-> ""],
            [type |-> "string", value |-> "a"], [type |-> "number", value |-> "7"]}

\* the empty parameter object: every field undefined
NoParams == [path |-> <<>>, includeFiles |-> TRUE, filterExtensions |-> NoFilter,
             query |-> NoQuery, includeDevDependencies |-> "undefined",
             outputFormat |-> "undefined"]

NavigateParams ==
    [path : RelPaths, includeFiles : BOOLEAN,
     filterExtensions : {NoFilter, [defined |-> TRUE, exts |-> {<<".", "t", "s">>}]},
     query : {NoQuery}, includeDevDependencies : {"undefined"},
     outputFormat : {"undefined"}]

SearchParams ==
    [path : {<<>>}, includeFiles : {TRUE}, filterExtensions : {NoFilter},
     query : Queries, includeDevDependencies : {"undefined"},
     outputFormat : {"undefined"}]

AnalyzeParams ==
    [path : {<<>>}, includeFiles : {TRUE}, filterExtensions : {NoFilter},
     query : {NoQuery}, includeDevDependencies : {"undefined", "true", "false"},
     outputFormat : {"undefined", "summary", "detailed", "json"}]

RequestedToolNames == ToolNames \cup {"unknown_tool", "health_check", ""}

\* the parameter objects tried with a tool name
ParamsFor(toolName) ==
    IF toolName = "navigate_structure" THEN NavigateParams
    ELSE IF toolName = "search_project" THEN SearchParams
    ELSE IF toolName \in ToolNames THEN {NoParams}
    ELSE {NoParams} \cup {p \in NavigateParams : Len(p.path) <= 1}
                    \cup {p \in SearchParams : p.query.type = "string"}

PromptNames == {"server_status", "project_overview", "unknown_prompt"}

ErrorNames == {"ValidationError", "NotFoundError", "PermissionError", "Error",
               "TypeError", "SyntaxError"}

Messages == {<<>>, <<"Invalid input">>, <<"Resource not found: ", "x">>,
             <<"Internal server error">>}

\* what an operation wrapped by errorHandlingMiddleware may settle with
OperationOutcomes ==
    {Return([what |-> "success", from |-> <<>>, data |-> <<>>])}
    \cup {Throw([name |-> n, message |-> m, oid |-> 1]) : n \in ErrorNames, m \in Messages}

Request(op, uri, name, params, input) ==
    [op |-> op, uri |-> uri, name |-> name, params |-> params, input |-> input]

NoRequest == Request("none", <<>>, "", NoParams, NoOutcome)

\* ProjectContextResources.readResource(uri)
ReadResource(uri) ==
    /\ request = NoRequest
    /\ request' = Request("readResource", uri, "", NoParams, NoOutcome)
    /\ response' = readResource(uri)
    /\ accessed' = readResourceAccessed(uri)
    /\ toolRan' = ""
    /\ UNCHANGED fs
    /\ UNCHANGED rlVars
    /\ UNCHANGED searchVars
    /\ UNCHANGED mwVars
    /\ UNCHANGED lifeVars
    /\ UNCHANGED cfgVars
    /\ UNCHANGED concVars

\* ProjectContextTools.executeTool(toolName, parameters)
ExecuteTool(toolName, parameters) ==
    /\ request = NoRequest
    /\ request' = Request("executeTool", <<>>, toolName, parameters, NoOutcome)
    /\ response' = executeTool(toolName, parameters)
    /\ accessed' = IF toolName = "navigate_structure"
                   THEN navigateStructureAccessed(parameters)
                   ELSE IF toolName = "analyze_dependencies"
                   THEN {projectPath, join(projectPath, <<"package.json">>)}
                   ELSE IF toolName = "search_project" /\ ~queryMissing(parameters.query)
                   THEN {projectPath}
                   ELSE {}
    /\ toolRan' = toolEntered(toolName)
    /\ UNCHANGED fs
    /\ UNCHANGED rlVars
    /\ UNCHANGED searchVars
    /\ UNCHANGED mwVars
    /\ UNCHANGED lifeVars
    /\ UNCHANGED cfgVars
    /\ UNCHANGED concVars

\* the server's ReadResourceRequestSchema handler
HandleReadResource(uri) ==
    /\ request = NoRequest
    /\ request' = Request("ReadResource", uri, "", NoParams, NoOutcome)
    /\ response' = readResourceHandler(uri)
    /\ accessed' = IF uri = ServerInfoUri THEN {} ELSE readResourceAccessed(uri)
    /\ toolRan' = ""
    /\ UNCHANGED fs
    /\ UNCHANGED rlVars
    /\ UNCHANGED searchVars
    /\ UNCHANGED mwVars
    /\ UNCHANGED lifeVars
    /\ UNCHANGED cfgVars
    /\ UNCHANGED concVars

\* the server's CallToolRequestSchema handler
HandleCallTool(name, parameters) ==
    /\ request = NoRequest
    /\ request' = Request("CallTool", <<>>, name, parameters, NoOutcome)
    /\ response' = callToolHandler(name)
    /\ accessed' = {}
    /\ toolRan' = IF name = "health_check" THEN name ELSE ""
    /\ UNCHANGED fs
    /\ UNCHANGED rlVars
    /\ UNCHANGED searchVars
    /\ UNCHANGED mwVars
    /\ UNCHANGED lifeVars
    /\ UNCHANGED cfgVars
    /\ UNCHANGED concVars

\* the server's ListResources, ListTools and ListPrompts handlers
HandleList(method) ==
    /\ request = NoRequest
    /\ request' = Request(method, <<>>, "", NoParams, NoOutcome)
    /\ response' = listHandler(method)
    /\ accessed' = {}
    /\ toolRan' = ""
    /\ UNCHANGED fs
    /\ UNCHANGED rlVars
    /\ UNCHANGED searchVars
    /\ UNCHANGED mwVars
    /\ UNCHANGED lifeVars
    /\ UNCHANGED cfgVars
    /\ UNCHANGED concVars

\* the server's GetPromptRequestSchema handler
HandleGetPrompt(name) ==
    /\ request = NoRequest
    /\ request' = Request("GetPrompt", <<>>, name, NoParams, NoOutcome)
    /\ response' = getPromptHandler(name)
    /\ accessed' = {}
    /\ toolRan' = ""
    /\ UNCHANGED fs
    /\ UNCHANGED rlVars
    /\ UNCHANGED searchVars
    /\ UNCHANGED mwVars
    /\ UNCHANGED lifeVars
    /\ UNCHANGED cfgVars
    /\ UNCHANGED concVars

\* errorHandlingMiddleware(operation, context) around an arbitrary operation
RunMiddleware(outcome) ==
    /\ request = NoRequest
    /\ request' = Request("errorHandlingMiddleware", <<>>, "", NoParams, outcome)
    /\ response' = errorHandlingMiddleware(outcome)
    /\ accessed' = {}
    /\ toolRan' = ""
    /\ UNCHANGED fs
    /\ UNCHANGED rlVars
    /\ UNCHANGED searchVars
    /\ UNCHANGED mwVars
    /\ UNCHANGED lifeVars
    /\ UNCHANGED cfgVars
    /\ UNCHANGED concVars

\* ProjectContextPrompts.executePrompt(promptName, args)
ExecutePrompt(promptName, args) ==
    /\ request = NoRequest
    /\ request' = Request("executePrompt", <<>>, promptName, args, NoOutcome)
    /\ response' = executePrompt(promptName, args)
    /\ accessed' = IF promptName \in RegisteredPrompts THEN {projectPath} ELSE {}
    /\ toolRan' = ""
    /\ UNCHANGED fs
    /\ UNCHANGED rlVars
    /\ UNCHANGED searchVars
    /\ UNCHANGED mwVars
    /\ UNCHANGED lifeVars
    /\ UNCHANGED cfgVars
    /\ UNCHANGED concVars

\* errorHandlingMiddleware has not been called
MwIdle ==
    /\ mwPc = "idle"
    /\ invocations = 0

\* an environment variable that is not set, and one set to a text
Unset == [set |-> FALSE, value |-> <<>>]

SetTo(value) == [set |-> TRUE, value |-> value]

NoConfig == [logLevel |-> <<>>, projectPath |-> <<>>, cacheEnabled |-> FALSE,
             cacheTTL |-> 0]

\* no configuration was built
CfgIdle ==
    /\ env = [LOG_LEVEL |-> Unset, PROJECT_PATH |-> Unset, CACHE_ENABLED |-> Unset,
              CACHE_TTL |-> Unset]
    /\ config = NoConfig

\* server.ts:34   the server as constructed: isRunning = false
LifeIdle ==
    /\ isRunning = FALSE
    /\ pending = <<>>
    /\ connects = 0
    /\ closes = 0
    /\ lifeCalls = <<>>

\* no request served yet
ReqIdle ==
    /\ fs = ProjectFS(12, "valid", TRUE, TRUE, <<"ab", "b">>, <<"b">>)
    /\ request = NoRequest
    /\ response = NoOutcome
    /\ accessed = {}
    /\ toolRan = ""

----------------------------------------------------------------------------
(* search_project: searchProject (tools.ts:658-721) and the walk of        *)
(* searchInDirectory (tools.ts:867-949), one loop iteration per step       *)

MaxResults == 3

SearchQueries == {<<"a">>, <<"b">>}

ContentChoices == {<<"ab", "", "b", "Ab">>, <<"b">>}

EmptyResult == [results |-> <<>>, totalResults |-> 0, searchTime |-> 0]

NoSearch == [query |-> <<>>, maxResults |-> 0, caseSensitive |-> FALSE,
             includeContent |-> FALSE]

SearchIdle ==
    /\ searchPc = "idle"
    /\ searchParams = NoSearch
    /\ result = EmptyResult
    /\ stack = <<>>
    /\ startTime = 0

Requests == {1, 2}

NoStats == [fileCount |-> 0, sizeInBytes |-> 0]

NoCall == [pc |-> "idle", kind |-> "none", params |-> NoSearch,
           result |-> EmptyResult, stats |-> NoStats, stack |-> <<>>,
           overlapped |-> FALSE]

\* no request is under way
ConcIdle == inflight = [i \in Requests |-> NoCall]

----------------------------------------------------------------------------
(* RateLimiter.checkLimit, middleware.ts:143-162 *)

\* mutant: the window test made inclusive (now - timestamp <= windowMs)
InWindowInclusive(timestamp, t) == t - timestamp <= windowMs

\* middleware.ts:149   now - timestamp < this.windowMs
InWindow(timestamp, t) == t - timestamp < windowMs

\* mutant: one window shared by all clients
validRequestsOfAllClients(clientId) ==
    LET other == CHOOSE d \in Clients : d # clientId IN
    SelectSeqIdx(requests[clientId] \o requests[other],
                 {ts \in 0..MaxTime : InWindow(ts, now)}, 1)

\* middleware.ts:148-150   clientRequests.filter(...)
validRequests(clientId) ==
    SelectSeqIdx(requests[clientId],
                 {ts \in 0..MaxTime : InWindow(ts, now)}, 1)

\* mutant: off by one, admits maxRequests + 1 calls per window
LimitExceededOffByOne(valid) == Len(valid) > maxRequests

\* middleware.ts:152   validRequests.length >= this.maxRequests
LimitExceeded(valid) == Len(valid) >= maxRequests

checkLimit(clientId) ==
    /\ Len(calls) < MaxCalls
    /\ LET valid == validRequests(clientId) IN
       IF LimitExceeded(valid)
       THEN /\ calls' = Append(calls, [client |-> clientId, ts |-> now, result |-> FALSE])
            /\ UNCHANGED requests
       ELSE /\ requests' = [requests EXCEPT ![clientId] = Append(valid, now)]
            /\ calls' = Append(calls, [client |-> clientId, ts |-> now, result |-> TRUE])
    /\ UNCHANGED <<now, maxRequests, windowMs, started, lastRequest>>
    /\ UNCHANGED reqVars
    /\ UNCHANGED searchVars
    /\ UNCHANGED mwVars
    /\ UNCHANGED lifeVars
    /\ UNCHANGED cfgVars
    /\ UNCHANGED concVars

\* Date.now() advances between calls; it never goes back
Tick ==
    /\ now < MaxTime
    /\ now' = now + 1
    /\ UNCHANGED <<maxRequests, windowMs, requests, calls, started, lastRequest>>
    /\ UNCHANGED reqVars
    /\ UNCHANGED searchVars
    /\ UNCHANGED mwVars
    /\ UNCHANGED lifeVars
    /\ UNCHANGED cfgVars
    /\ UNCHANGED concVars

RECURSIVE SumLen(_, _)
SumLen(f, S) ==
    IF S = {} THEN 0
    ELSE LET c == CHOOSE x \in S : TRUE IN Len(f[c]) + SumLen(f, S \ {c})

StartedTotal == SumLen(started, Clients)

(* ProjectContextMCPServer.setupHandlers, server.ts:63-245: each of the six *)
(* handlers runs its operation at once; the class holds no RateLimiter and  *)
(* no handler calls checkLimit.                                             *)
ServerRequest(clientId, method) ==
    /\ StartedTotal < MaxStarted
    /\ started' = [started EXCEPT ![clientId] = Append(@, now)]
    /\ lastRequest' = [client |-> clientId, method |-> method,
                       consulted |-> FALSE, ran |-> TRUE]
    /\ UNCHANGED <<now, maxRequests, windowMs, requests, calls>>
    /\ UNCHANGED reqVars
    /\ UNCHANGED searchVars
    /\ UNCHANGED mwVars
    /\ UNCHANGED lifeVars
    /\ UNCHANGED cfgVars
    /\ UNCHANGED concVars

InitRL ==
    /\ now = 0
    /\ maxRequests \in 0..MaxLimit
    /\ windowMs \in 0..MaxWindow
    /\ requests = [c \in Clients |-> <<>>]
    /\ calls = <<>>
    /\ started = [c \in Clients |-> <<>>]
    /\ lastRequest = [client |-> "none", method |-> "none",
                      consulted |-> FALSE, ran |-> FALSE]
    /\ ReqIdle
    /\ SearchIdle
    /\ MwIdle
    /\ LifeIdle
    /\ CfgIdle
    /\ ConcIdle

NextRL ==
    \/ Tick
    \/ \E c \in Clients : checkLimit(c)

SpecRL == InitRL /\ [][NextRL]_vars

NextServerRL ==
    \/ Tick
    \/ \E c \in Clients, m \in Methods : ServerRequest(c, m)

SpecServerRL == InitRL /\ [][NextServerRL]_vars

----------------------------------------------------------------------------
(* The walk of search_project *)

\* the rate limiter is not part of this specification
RLIdle ==
    /\ now = 0
    /\ maxRequests = 0
    /\ windowMs = 0
    /\ requests = [c \in Clients |-> <<>>]
    /\ calls = <<>>
    /\ started = [c \in Clients |-> <<>>]
    /\ lastRequest = [client |-> "none", method |-> "none",
                      consulted |-> FALSE, ran |-> FALSE]

\* tools.ts:900-902 and 927-929   the comparison of a name or a line with the query
matchesQuery(text, options) ==
    IF options.caseSensitive
    THEN includes(Chars(text), options.query)
    ELSE includes(toLowerCase(Chars(text)), toLowerCase(options.query))

\* tools.ts:916   stats.size > 1024 * 1024
searchFileTooLarge(size) == size > MaxFileSize

\* tools.ts:894   fullPath.replace(basePath + '/', '')
relativeTo(basePath, fullPath) ==
    IF startsWith(fullPath, basePath)
    THEN SubSeq(fullPath, Len(basePath) + 1, Len(fullPath))
    ELSE fullPath

\* mutant: the line loop runs to the end of the file whatever was collected
lineLoopContinuesUnbounded(i, lines, collected, options) == i <= Len(lines)

\* tools.ts:924   i < lines.length && result.results.length < options.maxResults
lineLoopContinues(i, lines, collected, options) ==
    i <= Len(lines) /\ collected < options.maxResults

\* tools.ts:879-882: a call of searchInDirectory pushes a frame unless the
\* limit is reached or readdir throws (caught at 946)
enterDirectory(frames, dir, collected, options) ==
    IF collected >= options.maxResults \/ ~canReaddir(dir)
    THEN frames
    ELSE Append(frames, [dir |-> dir, entries |-> readdir(dir), idx |-> 1, line |-> 0])

pushResult(res, match) ==
    [res EXCEPT !.results = Append(@, match), !.totalResults = @ + 1]

\* searchProject up to the first call of searchInDirectory
SearchStart(options) ==
    /\ searchPc = "idle"
    /\ request = NoRequest
    /\ searchPc' = "walking"
    /\ searchParams' = options
    /\ result' = EmptyResult
    /\ startTime' = now
    /\ stack' = enterDirectory(<<>>, projectPath, 0, options)
    /\ UNCHANGED rlVars
    /\ UNCHANGED reqVars
    /\ UNCHANGED mwVars
    /\ UNCHANGED lifeVars
    /\ UNCHANGED cfgVars
    /\ UNCHANGED concVars

\* one iteration of the entry loop (tools.ts:884-945) or of the line loop
\* (tools.ts:924-938) of the innermost searchInDirectory call: the frames and
\* the result object after it
searchInDirectoryStep(frames, res, options) ==
    LET top       == Len(frames)
        frame     == frames[top]
        below     == SubSeq(frames, 1, top - 1)
        collected == Len(res.results)
        nextEntry == Append(below, [frame EXCEPT !.idx = @ + 1, !.line = 0])
    IN
    IF frame.line = 0
    THEN IF frame.idx > Len(frame.entries) \/ collected >= options.maxResults
         THEN [stack |-> below, result |-> res]
         ELSE LET name     == frame.entries[frame.idx]
                  fullPath == Append(frame.dir, name)
                  relPath  == relativeTo(projectPath, fullPath)
              IN
              IF isSkipped(name)
              THEN [stack |-> nextEntry, result |-> res]
              ELSE IF fs[fullPath].type = "directory"
              THEN [stack  |-> enterDirectory(nextEntry, fullPath, collected, options),
                    result |-> res]
              ELSE LET named == IF matchesQuery(name, options)
                                THEN pushResult(res,
                                        [file |-> relPath, line |-> 0,
                                         content |-> "", type |-> "filename"])
                                ELSE res
                       scan  == /\ options.includeContent
                                /\ Len(named.results) < options.maxResults
                                /\ canStat(fullPath)
                                /\ ~searchFileTooLarge(fs[fullPath].size)
                                /\ canReadFile(fullPath)
                                /\ \E i \in DOMAIN fs[fullPath].lines :
                                      matchesQuery(fs[fullPath].lines[i], options)
                   IN  [stack  |-> IF scan
                                   THEN Append(below, [frame EXCEPT !.line = 1])
                                   ELSE nextEntry,
                        result |-> named]
    ELSE LET name     == frame.entries[frame.idx]
             fullPath == Append(frame.dir, name)
             lines    == fs[fullPath].lines
         IN
         IF ~lineLoopContinues(frame.line, lines, collected, options)
         THEN [stack |-> nextEntry, result |-> res]
         ELSE [stack  |-> Append(below, [frame EXCEPT !.line = @ + 1]),
               result |-> IF /\ lines[frame.line] # ""
                             /\ matchesQuery(lines[frame.line], options)
                          THEN pushResult(res,
                                  [file |-> relativeTo(projectPath, fullPath),
                                   line |-> frame.line,
                                   content |-> lines[frame.line],
                                   type |-> "content"])
                          ELSE res]

\* a step of the walk of the search under way
SearchStep ==
    /\ searchPc = "walking"
    /\ stack # <<>>
    /\ stack' = searchInDirectoryStep(stack, result, searchParams).stack
    /\ result' = searchInDirectoryStep(stack, result, searchParams).result
    /\ UNCHANGED <<searchPc, searchParams, startTime>>
    /\ UNCHANGED rlVars
    /\ UNCHANGED reqVars
    /\ UNCHANGED mwVars
    /\ UNCHANGED lifeVars
    /\ UNCHANGED cfgVars
    /\ UNCHANGED concVars

\* tools.ts:703-713   the walk returned: searchTime is taken and the result formatted
SearchFinish ==
    /\ searchPc = "walking"
    /\ stack = <<>>
    /\ searchPc' = "done"
    /\ result' = [result EXCEPT !.searchTime = now - startTime]
    /\ UNCHANGED <<searchParams, stack, startTime>>
    /\ UNCHANGED rlVars
    /\ UNCHANGED reqVars
    /\ UNCHANGED mwVars
    /\ UNCHANGED lifeVars
    /\ UNCHANGED cfgVars
    /\ UNCHANGED concVars

\* Date.now() advances while a search is under way
SearchTick ==
    /\ searchPc = "walking"
    /\ Tick

\* a file read through the resource provider, on the same file system
SearchReadFile(uri) ==
    /\ searchPc = "idle"
    /\ startsWith(uri, FileUriPrefix)
    /\ ReadResource(uri)

SearchOptions ==
    [query : SearchQueries, maxResults : 1..MaxResults, caseSensitive : BOOLEAN,
     includeContent : BOOLEAN]

InitSearch ==
    /\ RLIdle
    /\ SearchIdle
    /\ MwIdle
    /\ LifeIdle
    /\ CfgIdle
    /\ ConcIdle
    /\ fs \in {ProjectFS(bigSize, "valid", TRUE, srcListable, aLines, bLines) :
                  bigSize \in FileSizes, srcListable \in BOOLEAN,
                  aLines \in ContentChoices, bLines \in ContentChoices}
    /\ request = NoRequest
    /\ response = NoOutcome
    /\ accessed = {}
    /\ toolRan = ""

NextSearch ==
    \/ \E options \in SearchOptions : SearchStart(options)
    \/ SearchStep
    \/ SearchFinish
    \/ SearchTick
    \/ \E uri \in Uris : SearchReadFile(uri)

SpecSearch == InitSearch /\ [][NextSearch]_vars

----------------------------------------------------------------------------
(* One request over a project directory: received, then completed or       *)
(* failed; each behaviour serves one request.                              *)

Init ==
    /\ RLIdle
    /\ SearchIdle
    /\ MwIdle
    /\ LifeIdle
    /\ CfgIdle
    /\ ConcIdle
    /\ fs \in {ProjectFS(bigSize, pkg, aReadable, srcListable, <<"ab", "b">>, <<"b">>) :
                  bigSize \in FileSizes, pkg \in PackageStates,
                  aReadable \in BOOLEAN, srcListable \in BOOLEAN}
    /\ request = NoRequest
    /\ response = NoOutcome
    /\ accessed = {}
    /\ toolRan = ""

Next ==
    \/ \E uri \in Uris : ReadResource(uri)
    \/ \E toolName \in RequestedToolNames :
          \E parameters \in ParamsFor(toolName) : ExecuteTool(toolName, parameters)
    \/ \E uri \in Uris : HandleReadResource(uri)
    \/ \E name \in RequestedToolNames :
          \E parameters \in ParamsFor("") : HandleCallTool(name, parameters)
    \/ \E method \in {"ListResources", "ListTools", "ListPrompts"} : HandleList(method)
    \/ \E name \in PromptNames : HandleGetPrompt(name)
    \/ \E outcome \in OperationOutcomes : RunMiddleware(outcome)
    \/ \E promptName \in RegisteredPrompts \cup PromptNames :
          \E args \in {NoArgs, [NoArgs EXCEPT !.file_path = <<"big.log">>]} :
             ExecutePrompt(promptName, args)

Spec == Init /\ [][Next]_vars

----------------------------------------------------------------------------
(* One request over a project tree whose directories may be unlistable and  *)
(* whose entries may be stale: a resource read, a tool, a prompt or a       *)
(* search walk.                                                            *)

ProjectUris == {OverviewUri, StructureUri, DependenciesUri,
                FileUriPrefix \o <<"big.log">>}

ProjectNavigateParams == {p \in NavigateParams : Len(p.path) <= 1 /\ p.includeFiles}

\* the parameter objects tried with a tool over the project tree
ProjectParamsFor(toolName) ==
    IF toolName = "analyze_dependencies" THEN AnalyzeParams
    ELSE IF toolName = "navigate_structure" THEN ProjectNavigateParams
    ELSE IF toolName = "search_project" THEN SearchParams
    ELSE {NoParams}

RequestedPrompts == RegisteredPrompts \cup {"unknown_prompt"}

PromptArgs ==
    [file_path : {<<>>, <<"big.log">>, <<"a.ts">>},
     context_files : {<<>>, << <<"big.log">>, <<"a.ts">> >>}]

ProjectSearchOptions ==
    [query : SearchQueries, maxResults : {MaxResults}, caseSensitive : {FALSE},
     includeContent : BOOLEAN]

ProjectRead(uri) == searchPc = "idle" /\ ReadResource(uri)

ProjectTool(toolName, parameters) == searchPc = "idle" /\ ExecuteTool(toolName, parameters)

ProjectPrompt(promptName, args) == searchPc = "idle" /\ ExecutePrompt(promptName, args)

InitProject ==
    /\ RLIdle
    /\ SearchIdle
    /\ MwIdle
    /\ LifeIdle
    /\ CfgIdle
    /\ ConcIdle
    /\ fs \in {ProjectTree(root, srcListable, stale, manifest, lock, bigSize) :
                  root \in RootStates, srcListable \in BOOLEAN, stale \in BOOLEAN,
                  manifest \in ManifestChoices, lock \in BOOLEAN,
                  bigSize \in TextSizes}
    /\ request = NoRequest
    /\ response = NoOutcome
    /\ accessed = {}
    /\ toolRan = ""

NextProject ==
    \/ \E uri \in ProjectUris : ProjectRead(uri)
    \/ \E toolName \in ToolNames :
          \E parameters \in ProjectParamsFor(toolName) : ProjectTool(toolName, parameters)
    \/ \E promptName \in RequestedPrompts :
          \E args \in PromptArgs : ProjectPrompt(promptName, args)
    \/ \E options \in ProjectSearchOptions : SearchStart(options)
    \/ SearchStep
    \/ SearchFinish

SpecProject == InitProject /\ [][NextProject]_vars

----------------------------------------------------------------------------
(* The overview and the structure resource read over the same project,      *)
(* which may hold a regular file that bears the name of a build directory.  *)

\* the tree with an executable script named 'build' at the project root
WithBuildScript(tree) ==
    [p \in DOMAIN tree \cup {projectPath \o <<"build">>} |->
        IF p = projectPath \o <<"build">> THEN File(8, <<"a">>, TRUE, "none")
        ELSE tree[p]]

InitStats ==
    /\ RLIdle
    /\ SearchIdle
    /\ MwIdle
    /\ LifeIdle
    /\ CfgIdle
    /\ ConcIdle
    /\ fs \in LET trees == {ProjectTree(root, srcListable, stale, manifest, lock, 12) :
                              root \in {"listable", "unlistable"},
                              srcListable \in BOOLEAN, stale \in BOOLEAN,
                              manifest \in {NoManifest, [NoManifest EXCEPT !.state = "malformed"]},
                              lock \in BOOLEAN}
              IN  trees \cup {WithBuildScript(tree) : tree \in trees}
    /\ request = NoRequest
    /\ response = NoOutcome
    /\ accessed = {}
    /\ toolRan = ""

NextStats == \E uri \in {OverviewUri, StructureUri} : ProjectRead(uri)

SpecStats == InitStats /\ [][NextStats]_vars

----------------------------------------------------------------------------
(* One call of errorHandlingMiddleware (middleware.ts:54-83) step by step:  *)
(* the request is received, the wrapped operation is invoked, its promise   *)
(* settles.                                                                *)

MaxInvocations == 2

\* mutant: a rejected operation puts the request back to be run again
settledAsRetry(outcome) == IF outcome.kind = "ok" THEN "completed" ELSE "received"

\* middleware.ts:58-82   the promise of operation() fulfils and passes through,
\* or rejects and the catch handler throws
settledAs(outcome) == IF outcome.kind = "ok" THEN "completed" ELSE "failed"

\* the operations a caller wraps: one that settles in an arbitrary way, a
\* resource read, a tool
WrappedOperations ==
    OperationOutcomes
    \cup {readResourceOperation(uri) : uri \in Uris}
    \cup {executeToolOperation(toolName, NoParams) : toolName \in RequestedToolNames}

\* errorHandlingMiddleware(operation, context) is called
MiddlewareReceive(outcome) ==
    /\ request = NoRequest
    /\ mwPc = "idle"
    /\ request' = Request("wrapped operation", <<>>, "", NoParams, outcome)
    /\ mwPc' = "received"
    /\ UNCHANGED <<fs, response, accessed, toolRan, invocations>>
    /\ UNCHANGED rlVars
    /\ UNCHANGED searchVars
    /\ UNCHANGED lifeVars
    /\ UNCHANGED cfgVars
    /\ UNCHANGED concVars

\* middleware.ts:58   operation()
MiddlewareInvoke ==
    /\ mwPc = "received"
    /\ invocations < MaxInvocations
    /\ mwPc' = "executing"
    /\ invocations' = invocations + 1
    /\ UNCHANGED reqVars
    /\ UNCHANGED rlVars
    /\ UNCHANGED searchVars
    /\ UNCHANGED lifeVars
    /\ UNCHANGED cfgVars
    /\ UNCHANGED concVars

\* middleware.ts:58-82   the promise settles
MiddlewareSettle ==
    /\ mwPc = "executing"
    /\ response' = errorHandlingMiddleware(request.input)
    /\ mwPc' = settledAs(request.input)
    /\ UNCHANGED <<fs, request, accessed, toolRan, invocations>>
    /\ UNCHANGED rlVars
    /\ UNCHANGED searchVars
    /\ UNCHANGED lifeVars
    /\ UNCHANGED cfgVars
    /\ UNCHANGED concVars

NextMiddleware ==
    \/ \E outcome \in WrappedOperations : MiddlewareReceive(outcome)
    \/ MiddlewareInvoke
    \/ MiddlewareSettle

SpecMiddleware == Init /\ [][NextMiddleware]_vars

----------------------------------------------------------------------------
(* ProjectContextMCPServer.start and stop (server.ts:250-296).  A call runs *)
(* up to its await in one step and settles in a second one; connect and     *)
(* close may reject.                                                       *)

MaxLifeCalls == 5

\* a call that returned or threw: what it found in isRunning, how it ended
\* ("warned", "done" or "threw") and what it left in isRunning
LifeCall(kind, before, outcome, after) ==
    [kind |-> kind, before |-> before, outcome |-> outcome, after |-> after]

\* the sequence without its i-th element
RemoveAt(seq, i) == SubSeq(seq, 1, i - 1) \o SubSeq(seq, i + 1, Len(seq))

\* mutant: the flag is set whether or not connect resolved
runningAfterConnectAlways(connected) == TRUE

\* server.ts:263-265   isRunning = true is reached only when connect resolved
runningAfterConnect(connected) == IF connected THEN TRUE ELSE isRunning

\* server.ts:285-287   isRunning = false is reached only when close resolved
runningAfterClose(closed) == IF closed THEN FALSE ELSE isRunning

\* server.ts:250-263   start() up to `await this.server.connect(transport)`
Start ==
    /\ Len(lifeCalls) + Len(pending) < MaxLifeCalls
    /\ IF isRunning
       THEN /\ lifeCalls' = Append(lifeCalls, LifeCall("start", TRUE, "warned", TRUE))
            /\ UNCHANGED <<pending, connects>>
       ELSE /\ connects' = connects + 1
            /\ pending' = Append(pending, [kind |-> "start", before |-> isRunning])
            /\ UNCHANGED lifeCalls
    /\ UNCHANGED <<isRunning, closes>>
    /\ UNCHANGED rlVars
    /\ UNCHANGED reqVars
    /\ UNCHANGED searchVars
    /\ UNCHANGED mwVars
    /\ UNCHANGED cfgVars
    /\ UNCHANGED concVars

\* server.ts:263-272   connect resolves or rejects; the catch rethrows
ConnectSettles(i, connected) ==
    /\ i \in DOMAIN pending
    /\ pending[i].kind = "start"
    /\ isRunning' = runningAfterConnect(connected)
    /\ lifeCalls' = Append(lifeCalls,
                           LifeCall("start", pending[i].before,
                                    IF connected THEN "done" ELSE "threw",
                                    runningAfterConnect(connected)))
    /\ pending' = RemoveAt(pending, i)
    /\ UNCHANGED <<connects, closes>>
    /\ UNCHANGED rlVars
    /\ UNCHANGED reqVars
    /\ UNCHANGED searchVars
    /\ UNCHANGED mwVars
    /\ UNCHANGED cfgVars
    /\ UNCHANGED concVars

\* server.ts:277-285   stop() up to `await this.server.close()`
Stop ==
    /\ Len(lifeCalls) + Len(pending) < MaxLifeCalls
    /\ IF ~isRunning
       THEN /\ lifeCalls' = Append(lifeCalls, LifeCall("stop", FALSE, "warned", FALSE))
            /\ UNCHANGED <<pending, closes>>
       ELSE /\ closes' = closes + 1
            /\ pending' = Append(pending, [kind |-> "stop", before |-> isRunning])
            /\ UNCHANGED lifeCalls
    /\ UNCHANGED <<isRunning, connects>>
    /\ UNCHANGED rlVars
    /\ UNCHANGED reqVars
    /\ UNCHANGED searchVars
    /\ UNCHANGED mwVars
    /\ UNCHANGED cfgVars
    /\ UNCHANGED concVars

\* server.ts:285-293   close resolves or rejects; the catch rethrows
CloseSettles(i, closed) ==
    /\ i \in DOMAIN pending
    /\ pending[i].kind = "stop"
    /\ isRunning' = runningAfterClose(closed)
    /\ lifeCalls' = Append(lifeCalls,
                           LifeCall("stop", pending[i].before,
                                    IF closed THEN "done" ELSE "threw",
                                    runningAfterClose(closed)))
    /\ pending' = RemoveAt(pending, i)
    /\ UNCHANGED <<connects, closes>>
    /\ UNCHANGED rlVars
    /\ UNCHANGED reqVars
    /\ UNCHANGED searchVars
    /\ UNCHANGED mwVars
    /\ UNCHANGED cfgVars
    /\ UNCHANGED concVars

\* the server as constructed, nothing else going on
InitLife ==
    /\ RLIdle
    /\ SearchIdle
    /\ MwIdle
    /\ LifeIdle
    /\ CfgIdle
    /\ ConcIdle
    /\ ReqIdle

\* each call is awaited before the next one is made
NextLife ==
    \/ pending = <<>> /\ Start
    \/ pending = <<>> /\ Stop
    \/ \E i \in DOMAIN pending, connected \in BOOLEAN : ConnectSettles(i, connected)
    \/ \E i \in DOMAIN pending, closed \in BOOLEAN : CloseSettles(i, closed)

SpecLife == InitLife /\ [][NextLife]_vars

\* calls may be made while earlier ones are still awaiting connect or close
NextLifeOverlap ==
    \/ Start
    \/ Stop
    \/ \E i \in DOMAIN pending, connected \in BOOLEAN : ConnectSettles(i, connected)
    \/ \E i \in DOMAIN pending, closed \in BOOLEAN : CloseSettles(i, closed)

SpecLifeOverlap == InitLife /\ [][NextLifeOverlap]_vars

----------------------------------------------------------------------------
(* ServerConfig (config.ts): the constructor's defaults and fromEnvironment. *)
(* A text is the sequence of its characters.                                *)

Digits == <<"0", "1", "2", "3", "4", "5", "6", "7", "8", "9">>

isDigit(c) == \E i \in DOMAIN Digits : Digits[i] = c

DigitValue(c) == (CHOOSE i \in DOMAIN Digits : Digits[i] = c) - 1

NaN == [nan |-> TRUE, value |-> 0]

Number(n) == [nan |-> FALSE, value |-> n]

RECURSIVE parseDigits(_, _)
\* the value of the longest prefix of digits, after the digits read so far
parseDigits(cs, acc) ==
    IF cs = <<>> \/ ~isDigit(Head(cs)) THEN acc
    ELSE parseDigits(Tail(cs), 10 * acc + DigitValue(Head(cs)))

\* parseInt(text, 10): an optional sign and the longest prefix of digits,
\* NaN when there is no digit
parseInt(cs) ==
    LET negative == cs # <<>> /\ Head(cs) = "-"
        digits   == IF cs # <<>> /\ Head(cs) \in {"-", "+"} THEN Tail(cs) ELSE cs
    IN  IF digits = <<>> \/ ~isDigit(Head(digits)) THEN NaN
        ELSE Number(IF negative THEN 0 - parseDigits(digits, 0)
                    ELSE parseDigits(digits, 0))

\* process.cwd()
cwd == <<"/", "c", "w", "d">>

\* a text is truthy when it is set and not empty
truthy(text) == text.set /\ text.value # <<>>

\* config.ts:79   cacheEnabled: process.env.CACHE_ENABLED === 'true', a
\* boolean whether or not the variable is set
cacheEnabledOption(environment) ==
    [set |-> TRUE,
     value |-> /\ environment.CACHE_ENABLED.set
               /\ environment.CACHE_ENABLED.value = <<"t", "r", "u", "e">>]

\* config.ts:80-82   cacheTTL: CACHE_TTL ? parseInt(CACHE_TTL, 10) : undefined
cacheTTLOption(environment) ==
    IF truthy(environment.CACHE_TTL)
    THEN [set |-> TRUE, number |-> parseInt(environment.CACHE_TTL.value)]
    ELSE [set |-> FALSE, number |-> NaN]

\* config.ts:29-55   new ServerConfig(options) under the environment
ServerConfig(options, environment) ==
    [logLevel     |-> IF truthy(options.logLevel) THEN options.logLevel.value
                      ELSE IF truthy(environment.LOG_LEVEL)
                      THEN environment.LOG_LEVEL.value
                      ELSE <<"i", "n", "f", "o">>,
     projectPath  |-> IF truthy(options.projectPath) THEN options.projectPath.value
                      ELSE cwd,
     cacheEnabled |-> IF options.cacheEnabled.set THEN options.cacheEnabled.value
                      ELSE TRUE,
     cacheTTL     |-> IF /\ options.cacheTTL.set
                         /\ ~options.cacheTTL.number.nan
                         /\ options.cacheTTL.number.value # 0
                      THEN options.cacheTTL.number.value
                      ELSE 300000]

\* config.ts:75-84
fromEnvironment(environment) ==
    ServerConfig([logLevel     |-> environment.LOG_LEVEL,
                  projectPath  |-> environment.PROJECT_PATH,
                  cacheEnabled |-> cacheEnabledOption(environment),
                  cacheTTL     |-> cacheTTLOption(environment)],
                 environment)

LogLevels == {Unset, SetTo(<<>>), SetTo(<<"e", "r", "r", "o", "r">>)}

ProjectPaths == {Unset, SetTo(<<"/", "e", "n", "v">>)}

CacheEnabledTexts ==
    {Unset, SetTo(<<>>), SetTo(<<"t", "r", "u", "e">>), SetTo(<<"f", "a", "l", "s", "e">>),
     SetTo(<<"T", "R", "U", "E">>), SetTo(<<"1">>)}

CacheTTLTexts ==
    {Unset, SetTo(<<>>), SetTo(<<"1", "2", "0", "0", "0", "0">>),
     SetTo(<<"i", "n", "v", "a", "l", "i", "d">>), SetTo(<<"0">>), SetTo(<<"-", "5">>)}

\* ServerConfig.fromEnvironment()
FromEnvironment ==
    /\ config = NoConfig
    /\ config' = fromEnvironment(env)
    /\ UNCHANGED env
    /\ UNCHANGED rlVars
    /\ UNCHANGED reqVars
    /\ UNCHANGED searchVars
    /\ UNCHANGED mwVars
    /\ UNCHANGED lifeVars
    /\ UNCHANGED concVars

InitConfig ==
    /\ RLIdle
    /\ SearchIdle
    /\ MwIdle
    /\ LifeIdle
    /\ ReqIdle
    /\ env \in [LOG_LEVEL : LogLevels, PROJECT_PATH : ProjectPaths,
                CACHE_ENABLED : CacheEnabledTexts, CACHE_TTL : CacheTTLTexts]
    /\ config = NoConfig
    /\ ConcIdle

NextConfig == FromEnvironment

SpecConfig == InitConfig /\ [][NextConfig]_vars

----------------------------------------------------------------------------
(* Two requests under way at once: each call of searchProject and of        *)
(* getProjectStats has its own locals, and the calls take turns at the      *)
(* awaits of their fs calls.                                                *)

\* resources.ts:416-417   a call of countFiles: the frame of its loop, none
\* when fs.readdir throws (caught at 443)
enterCountFiles(frames, dir) ==
    IF canReaddir(dir)
    THEN Append(frames, [dir |-> dir, entries |-> readdir(dir), idx |-> 1, line |-> 0])
    ELSE frames

\* resources.ts:419-442   one iteration of the loop of the innermost
\* countFiles call: the frames and the counters after it
countFilesStep(frames, stats) ==
    LET top       == Len(frames)
        frame     == frames[top]
        below     == SubSeq(frames, 1, top - 1)
        nextEntry == Append(below, [frame EXCEPT !.idx = @ + 1])
    IN
    IF frame.idx > Len(frame.entries)
    THEN [stack |-> below, stats |-> stats]
    ELSE LET name     == frame.entries[frame.idx]
             fullPath == Append(frame.dir, name)
         IN
         IF isHidden(name)
         THEN [stack |-> nextEntry, stats |-> stats]
         ELSE IF fs[fullPath].type = "directory"
         THEN [stack |-> IF name \in {"node_modules", "dist", "build", "coverage"}
                         THEN nextEntry
                         ELSE enterCountFiles(nextEntry, fullPath),
               stats |-> stats]
         ELSE IF ~canStat(fullPath)
         THEN [stack |-> below,
               stats |-> [stats EXCEPT !.fileCount = @ + 1]]
         ELSE [stack |-> nextEntry,
               stats |-> [fileCount   |-> stats.fileCount + 1,
                          sizeInBytes |-> stats.sizeInBytes + fs[fullPath].size]]

\* mutant: one accumulator kept on the provider and used by every call
accumulatorOfProvider(i) == 1

\* tools.ts:680-685 and resources.ts:411-413   the result object and the
\* counters a call accumulates into are locals of that call
accumulatorOf(i) == i

\* a request arrives: searchProject up to its first searchInDirectory call
\* (tools.ts:658-690), or getProjectStats up to its first countFiles call
\* (resources.ts:407-448)
RequestStart(i, kind, options) ==
    /\ inflight[i].pc = "idle"
    /\ inflight' =
          [inflight EXCEPT ![i] =
              [pc |-> "walking", kind |-> kind,
               params |-> IF kind = "search" THEN options ELSE NoSearch,
               result |-> EmptyResult, stats |-> NoStats,
               stack |-> IF kind = "search"
                         THEN enterDirectory(<<>>, projectPath, 0, options)
                         ELSE enterCountFiles(<<>>, projectPath),
               overlapped |-> FALSE]]
    /\ UNCHANGED rlVars
    /\ UNCHANGED reqVars
    /\ UNCHANGED searchVars
    /\ UNCHANGED mwVars
    /\ UNCHANGED lifeVars
    /\ UNCHANGED cfgVars

\* request i runs from one await of an fs call to the next
RequestStep(i) ==
    /\ inflight[i].pc = "walking"
    /\ inflight[i].stack # <<>>
    /\ LET call   == inflight[i]
           target == accumulatorOf(i)
           others == \E j \in Requests \ {i} : inflight[j].pc = "walking"
       IN
       IF call.kind = "search"
       THEN LET next == searchInDirectoryStep(call.stack, inflight[target].result,
                                              call.params)
            IN  inflight' = [[inflight EXCEPT ![target].result = next.result]
                                EXCEPT ![i].stack = next.stack,
                                       ![i].overlapped = @ \/ others]
       ELSE LET next == countFilesStep(call.stack, inflight[target].stats)
            IN  inflight' = [[inflight EXCEPT ![target].stats = next.stats]
                                EXCEPT ![i].stack = next.stack,
                                       ![i].overlapped = @ \/ others]
    /\ UNCHANGED rlVars
    /\ UNCHANGED reqVars
    /\ UNCHANGED searchVars
    /\ UNCHANGED mwVars
    /\ UNCHANGED lifeVars
    /\ UNCHANGED cfgVars

\* tools.ts:703-713 and resources.ts:450-454   the walk returned and the
\* call returns what it accumulated
RequestFinish(i) ==
    /\ inflight[i].pc = "walking"
    /\ inflight[i].stack = <<>>
    /\ inflight' = [inflight EXCEPT ![i].pc = "done"]
    /\ UNCHANGED rlVars
    /\ UNCHANGED reqVars
    /\ UNCHANGED searchVars
    /\ UNCHANGED mwVars
    /\ UNCHANGED lifeVars
    /\ UNCHANGED cfgVars

ConcurrentSearches ==
    {[query |-> <<"a">>, maxResults |-> MaxResults, caseSensitive |-> FALSE,
      includeContent |-> TRUE],
     [query |-> <<"b">>, maxResults |-> 2, caseSensitive |-> TRUE,
      includeContent |-> TRUE]}

InitConcurrent ==
    /\ RLIdle
    /\ SearchIdle
    /\ MwIdle
    /\ LifeIdle
    /\ CfgIdle
    /\ ConcIdle
    /\ fs \in {ProjectFS(1, "valid", TRUE, srcListable, <<"ab", "", "b", "Ab">>, <<"b">>) :
                  srcListable \in BOOLEAN}
    /\ request = NoRequest
    /\ response = NoOutcome
    /\ accessed = {}
    /\ toolRan = ""

NextConcurrent ==
    \/ \E i \in Requests : \E options \in ConcurrentSearches :
          RequestStart(i, "search", options)
    \/ \E i \in Requests : RequestStart(i, "overview", NoSearch)
    \/ \E i \in Requests : RequestStep(i)
    \/ \E i \in Requests : RequestFinish(i)

SpecConcurrent == InitConcurrent /\ [][NextConcurrent]_vars

----------------------------------------------------------------------------
(* Claims about the rate limiter *)

\* the calls of client c that returned true with a timestamp in (t - windowMs, t]
AdmittedIn(c, t) ==
    {i \in DOMAIN calls : /\ calls[i].client = c
                          /\ calls[i].result
                          /\ calls[i].ts > t - windowMs
                          /\ calls[i].ts <= t}

\* C3: under a non-decreasing clock, for every client and every time t at most
\* maxRequests of the client's calls with a timestamp in (t - windowMs, t]
\* returned true; with maxRequests = 2 the third call of a client inside one
\* window returns false.
C3_WindowNeverExceeded ==
    /\ \A c \in Clients, t \in 0..MaxTime :
          Cardinality(AdmittedIn(c, t)) <= maxRequests
    /\ maxRequests = 2 =>
          \A i, j, k \in DOMAIN calls :
             ( /\ i < j /\ j < k
               /\ calls[i].client = calls[k].client
               /\ calls[j].client = calls[k].client
               /\ calls[i].result /\ calls[j].result
               /\ calls[k].ts - calls[i].ts < windowMs )
             => ~calls[k].result

\* two calls admitted and a third of the same client rejected inside the window
C3_Witness ==
    /\ maxRequests = 2
    /\ \E i, j, k \in DOMAIN calls :
          /\ i < j /\ j < k
          /\ calls[i].client = calls[k].client
          /\ calls[j].client = calls[k].client
          /\ calls[i].result /\ calls[j].result /\ ~calls[k].result
          /\ calls[k].ts - calls[i].ts < windowMs

\* C4: for maxRequests >= 1, a call made when at least windowMs has elapsed
\* since every timestamp at which the client was admitted returns true,
\* whatever number of its calls were rejected in between.
C4_ClientRecovers ==
    maxRequests >= 1 =>
       \A k \in DOMAIN calls :
          (\A i \in 1..(k - 1) :
              (calls[i].client = calls[k].client /\ calls[i].result)
                 => calls[k].ts - calls[i].ts >= windowMs)
          => calls[k].result

\* a client admitted, then rejected, then admitted again once the window elapsed
C4_Witness ==
    /\ maxRequests >= 1
    /\ \E i, j, k \in DOMAIN calls :
          /\ i < j /\ j < k
          /\ calls[i].client = calls[k].client
          /\ calls[j].client = calls[k].client
          /\ calls[i].result /\ ~calls[j].result /\ calls[k].result
          /\ \A h \in 1..(k - 1) :
                (calls[h].client = calls[k].client /\ calls[h].result)
                   => calls[k].ts - calls[h].ts >= windowMs

\* the operations a handler started for client c with a start time in (t - windowMs, t]
StartedIn(c, t) ==
    {i \in DOMAIN started[c] : started[c][i] > t - windowMs /\ started[c][i] <= t}

\* C5: every request a server handler dispatches consults the RateLimiter
\* before its operation runs, and no operation is started for a caller that
\* has used up maxRequests within the window.
C5_HandlersRateLimited ==
    /\ lastRequest.ran => lastRequest.consulted
    /\ \A c \in Clients, t \in 0..MaxTime :
          Cardinality(StartedIn(c, t)) <= maxRequests

----------------------------------------------------------------------------
(* Claims about error normalisation and request dispatch *)

\* the response is a normalised error of the given class
Classified(prefix) ==
    /\ response.kind = "error"
    /\ response.error.message # <<>>
    /\ Head(response.error.message) = prefix

RecognizedUri(uri) ==
    \/ uri \in {OverviewUri, StructureUri, DependenciesUri, ServerInfoUri}
    \/ startsWith(uri, FileUriPrefix)

\* C1: a read of a URI that is neither a recognized resource URI nor a
\* 'context://file/' URI fails with a NotFound-classified error naming the URI,
\* never with 'Internal server error', both through readResource itself and
\* through the server's ReadResource handler.
C1_UnknownUriIsNotFound ==
    (request.op \in {"readResource", "ReadResource"} /\ ~RecognizedUri(request.uri))
       => /\ Classified("Resource not found: ")
          /\ includes(response.error.message, request.uri)
          /\ response.error.message # <<"Internal server error">>

\* C2: whatever relative path a file URI or navigate_structure carries, '..'
\* segments included, every path that is stat'ed, listed or read lies inside
\* the project root, and a path that resolves outside the root is refused.
C2_NeverLeavesProjectRoot ==
    /\ \A p \in accessed : InsideRoot(p)
    /\ (response.kind = "ok" /\ response.payload.from # <<>>)
          => InsideRoot(response.payload.from)
    /\ (\/ request.op \in {"readResource", "ReadResource"}
           /\ startsWith(request.uri, FileUriPrefix)
           /\ ~InsideRoot(join(projectPath, Tail(request.uri)))
        \/ request.op = "executeTool"
           /\ request.name = "navigate_structure"
           /\ ~InsideRoot(join(projectPath, request.params.path)))
          => response.kind = "error"

\* C6: a failure of the wrapped operation is rethrown as a new Error whose
\* message is the class prefix followed by the original message for
\* ValidationError, NotFoundError and PermissionError, and exactly 'Internal
\* server error' for any other name; the original error object is not rethrown.
C6_ErrorsAreNormalized ==
    (request.op = "errorHandlingMiddleware" /\ request.input.kind = "error")
       => LET original == request.input.error IN
          /\ response.kind = "error"
          /\ response.error.name = "Error"
          /\ response.error.oid # original.oid
          /\ response.error.message =
                CASE original.name = "ValidationError" ->
                        <<"Invalid request: ">> \o original.message
                  [] original.name = "NotFoundError" ->
                        <<"Resource not found: ">> \o original.message
                  [] original.name = "PermissionError" ->
                        <<"Permission denied: ">> \o original.message
                  [] OTHER -> <<"Internal server error">>

\* a NotFoundError with a message went through the middleware
C6_Witness ==
    /\ request.op = "errorHandlingMiddleware"
    /\ request.input.kind = "error"
    /\ request.input.error.name = "NotFoundError"
    /\ request.input.error.message = <<"Invalid input">>
    /\ response.kind = "error"

GenericToolMessages ==
    { <<"Unable to analyze dependencies. Ensure package.json exists and is valid.">>,
      <<"Search query is required">>, <<"Search operation failed">> }

C9_UnknownToolIsNotFound ==
    (\/ request.op = "executeTool" /\ request.name \notin ToolNames
     \/ request.op = "CallTool" /\ request.name # "health_check")
       => /\ Classified("Resource not found: ")
          /\ includes(response.error.message, <<request.name>>)
          /\ toolRan = ""
          /\ accessed = {}

\* executeTool was called with an unregistered name and navigation parameters
C9_Witness ==
    /\ request.op = "executeTool"
    /\ request.name = "unknown_tool"
    /\ request.params.path # <<>>
    /\ response.kind = "error"

----------------------------------------------------------------------------
(* Claims about the size ceiling and the search walk *)

\* the file a 'context://file/<path>' request resolves to
RequestedFile == join(projectPath, Tail(request.uri))

\* C7: readResource('context://file/<path>') never returns the text of a file
\* larger than 1 MiB -- it fails NotFound-classified -- and search_project
\* never emits a 'content' match taken from such a file; a file of exactly
\* 1,048,576 bytes is still read.
C7_SizeCeiling ==
    /\ (/\ request.op = "readResource"
        /\ startsWith(request.uri, FileUriPrefix)
        /\ exists(RequestedFile)
        /\ fs[RequestedFile].type = "file")
          => /\ fs[RequestedFile].size > 1048576
                => /\ Classified("Resource not found: ")
                   /\ response.payload.data = <<>>
             /\ (fs[RequestedFile].size = 1048576 /\ fs[RequestedFile].readable)
                => /\ response.kind = "ok"
                   /\ response.payload.data = fs[RequestedFile].lines
    /\ \A i \in DOMAIN result.results :
          result.results[i].type = "content"
             => fs[projectPath \o result.results[i].file].size <= 1048576

\* big.log is one byte over the ceiling and was requested through readResource
C7_Witness ==
    /\ request.op = "readResource"
    /\ request.uri = FileUriPrefix \o <<"big.log">>
    /\ fs[projectPath \o <<"big.log">>].size = 1048577
    /\ response.kind = "error"

\* the files the walk reaches: below the root, no skipped name on the way and
\* every directory on the way listable
VisibleFiles ==
    {p \in DOMAIN fs :
        /\ fs[p].type = "file"
        /\ startsWith(p, projectPath)
        /\ Len(p) > Len(projectPath)
        /\ \A k \in (Len(projectPath) + 1)..Len(p) : ~isSkipped(p[k])
        /\ \A k \in Len(projectPath)..(Len(p) - 1) : canReaddir(SubSeq(p, 1, k))}

FilenameMatches ==
    {p \in VisibleFiles : matchesQuery(p[Len(p)], searchParams)}

\* the lines of readable files within the size ceiling that contain the query
ContentLineMatches ==
    UNION { {<<p, i>> : i \in {j \in DOMAIN fs[p].lines :
                                  /\ fs[p].lines[j] # ""
                                  /\ matchesQuery(fs[p].lines[j], searchParams)}} :
            p \in {q \in VisibleFiles : fs[q].size <= 1048576 /\ fs[q].readable} }

Min(a, b) == IF a <= b THEN a ELSE b

----------------------------------------------------------------------------
(* Claims about the structure tree and the traversal passes *)

\* readResource('context://project/structure') returned a tree
StructureRead ==
    /\ request.op = "readResource"
    /\ request.uri = StructureUri
    /\ response.kind = "ok"

RECURSIVE TreeNodes(_)
\* the nodes of a tree, the root included
TreeNodes(node) ==
    {node} \cup (IF "children" \in DOMAIN node
                 THEN UNION {TreeNodes(node.children[i]) : i \in DOMAIN node.children}
                 ELSE {})

\* the children of a node are in the order of the comparator: directories
\* before files, names ascending within each kind
ChildrenSorted(node) ==
    "children" \in DOMAIN node =>
       \A i, j \in DOMAIN node.children :
          i < j => LET a == node.children[i]
                       b == node.children[j]
                   IN  /\ ~(a.type = "file" /\ b.type = "directory")
                       /\ a.type = b.type => localeComparePaths(a.name, b.name) <= 0

\* C11: in the tree returned by the structure resource, at every directory
\* node all 'directory' children precede all 'file' children and within each
\* kind the children are in ascending name order, whatever the outcome of the
\* per-entry file-system calls, a failing entry included.
C11_TreeAlwaysSorted ==
    StructureRead => \A node \in TreeNodes(response.payload.data) : ChildrenSorted(node)

\* listing dir and building every entry the loop does not skip succeeds
BuiltAllChildren(dir) ==
    /\ canReaddir(dir)
    /\ \A i \in DOMAIN readdir(dir) :
          isSkipped(readdir(dir)[i]) \/ canStat(Append(dir, readdir(dir)[i]))

\* C12: in every tree returned by the structure resource a 'file' node has
\* no children field and a 'directory' node has a children list exactly when
\* listing it and building all of its children succeeded; when readdir or the
\* stat of an entry throws, children is absent, never partially filled, and
\* the failure is not propagated.
C12_ChildrenAllOrNothing ==
    (request.op = "readResource" /\ request.uri = StructureUri /\ canStat(projectPath))
       => /\ response.kind = "ok"
          /\ \A node \in TreeNodes(response.payload.data) :
                IF node.type = "file" THEN "children" \notin DOMAIN node
                ELSE ("children" \in DOMAIN node)
                        <=> BuiltAllChildren(projectPath \o node.path)

\* every entry that is listed can be stat'ed
NoStaleEntry == \A p \in DOMAIN fs : fs[p].stat

\* the visible files, relative to the project root
VisibleRelative == {relative(projectPath, p) : p \in VisibleFiles}

\* the paths of the 'file' nodes of a tree
TreeFiles(tree) == {node.path : node \in {n \in TreeNodes(tree) : n.type = "file"}}

\* C13: a readdir failure of any directory during the statistics pass, the
\* structure-tree build or the search_project walk is caught locally: the
\* directory contributes no entries (no children in the tree), the entries of
\* all other directories are still processed, and the request completes
\* without an error.  Checked where every listed entry can be stat'ed.
C13_UnlistableDirectoryIsEmpty ==
    NoStaleEntry =>
       /\ (request.op = "readResource" /\ request.uri = OverviewUri)
             => /\ response.kind = "ok"
                /\ response.payload.data.fileCount = Cardinality(VisibleFiles)
       /\ (request.op = "readResource" /\ request.uri = StructureUri
                                       /\ canStat(projectPath))
             => /\ response.kind = "ok"
                /\ TreeFiles(response.payload.data) = VisibleRelative
                /\ \A node \in TreeNodes(response.payload.data) :
                      (node.type = "directory" /\ ~canReaddir(projectPath \o node.path))
                         => "children" \notin DOMAIN node
       /\ (searchPc = "done" /\ ~searchParams.includeContent)
             => /\ Len(result.results) =
                      Min(searchParams.maxResults, Cardinality(FilenameMatches))
                /\ \A i \in DOMAIN result.results :
                      projectPath \o result.results[i].file \in FilenameMatches

\* the overview of a project whose src directory cannot be listed counted the
\* files of the other directories
C13_Witness ==
    /\ request.op = "readResource"
    /\ request.uri = OverviewUri
    /\ NoStaleEntry
    /\ canReaddir(projectPath)
    /\ exists(projectPath \o <<"src">>)
    /\ ~canReaddir(projectPath \o <<"src">>)
    /\ response.kind = "ok"
    /\ response.payload.data.fileCount > 0

\* the languages a tally of the visible files may name: those counted most
\* often, 'Unknown' when no visible file has a known extension
PolicyLanguages ==
    LET known == {"TypeScript", "JavaScript"}
        count(language) ==
           Cardinality({p \in VisibleFiles : languageMap(extname(p[Len(p)])) = language})
    IN  IF \A l \in known : count(l) = 0 THEN {"Unknown"}
        ELSE {l \in known : \A k \in known : count(k) <= count(l)}

\* no segment of a relative path is skipped by the policy
NoSkippedSegment(path) == \A k \in DOMAIN path : ~isSkipped(path[k])

\* C14: every traversal pass (overview statistics, primary-language tally,
\* structure tree, navigate_structure, search_project) applies the same skip
\* policy -- a name starting with '.' is skipped unless it starts with '.git',
\* and node_modules, dist, build and coverage are never descended into -- so
\* no file below such a directory contributes to fileCount, to the language
\* tally, to the tree or to the search results.
C14_UniformSkipPolicy ==
    /\ (request.op = "readResource" /\ request.uri = OverviewUri)
          => /\ NoStaleEntry
                   => response.payload.data.fileCount = Cardinality(VisibleFiles)
             /\ response.payload.data.language \in PolicyLanguages
    /\ StructureRead
          => \A node \in TreeNodes(response.payload.data) : NoSkippedSegment(node.path)
    /\ (/\ request.op = "executeTool"
        /\ request.name = "navigate_structure"
        /\ response.kind = "ok")
          => \A i \in DOMAIN response.payload.data :
                ~isSkipped(response.payload.data[i])
    /\ \A i \in DOMAIN result.results : NoSkippedSegment(result.results[i].file)

----------------------------------------------------------------------------
(* Claims about the dependency figures and the manifest *)

\* the package.json of the project root
PackageJsonPath == join(projectPath, <<"package.json">>)

\* package.json can be read and parses
ManifestValid == canReadFile(PackageJsonPath) /\ fs[PackageJsonPath].json = "valid"

\* the three figures an analyze_dependencies result shows, whatever its format
reportedFigures(data) ==
    LET figures == IF data.format = "json"
                   THEN [total       |-> data.text.totalDependencies,
                         production  |-> data.text.productionDependencies,
                         development |-> data.text.developmentDependencies]
                   ELSE IF data.format = "detailed" THEN data.text.summary
                   ELSE data.text
    IN  [total |-> figures.total, production |-> figures.production,
         development |-> figures.development]

\* C15: for a package.json that parses, with N names under dependencies and M
\* under devDependencies, analyze_dependencies reports N + M dependencies in
\* total, N production and M development ones when includeDevDependencies is
\* true or omitted, and N in total with 0 development ones when it is false,
\* in the summary, the detailed and the json format alike; the lists of the
\* detailed and the json format hold as many entries as the figures say.
C15_DependencyTotals ==
    (request.op = "executeTool" /\ request.name = "analyze_dependencies" /\ ManifestValid)
       => LET N == Len(fs[PackageJsonPath].dependencies)
              M == Len(fs[PackageJsonPath].devDependencies)
              counted == IF request.params.includeDevDependencies = "false" THEN 0 ELSE M
              format  == IF request.params.outputFormat = "undefined" THEN "summary"
                         ELSE request.params.outputFormat
          IN  /\ response.kind = "ok"
              /\ response.payload.data.format = format
              /\ reportedFigures(response.payload.data) =
                    [total |-> N + counted, production |-> N, development |-> counted]
              /\ format = "json"
                    => Len(response.payload.data.text.dependencies) = N + counted
              /\ format = "detailed"
                    => /\ Len(response.payload.data.text.production) = N
                       /\ Len(response.payload.data.text.development) = counted

\* a detailed report without the development dependencies of a manifest that
\* declares some of each kind
C15_Witness ==
    /\ request.op = "executeTool"
    /\ request.name = "analyze_dependencies"
    /\ request.params.includeDevDependencies = "false"
    /\ request.params.outputFormat = "detailed"
    /\ ManifestValid
    /\ Len(fs[PackageJsonPath].dependencies) = MaxDeps
    /\ Len(fs[PackageJsonPath].devDependencies) > 0
    /\ response.kind = "ok"
    /\ reportedFigures(response.payload.data).total = MaxDeps

\* readResource('context://project/dependencies') was served
DependenciesRead == request.op = "readResource" /\ request.uri = DependenciesUri

\* a lock file of a recognized package manager lies in the project root
LockFilePresent ==
    \E name \in {"package-lock.json", "yarn.lock"} : exists(Append(projectPath, name))

\* C16: for a project whose package.json declares N dependencies and M
\* devDependencies the dependencies resource reports totalCount = N + M, which
\* is the combined length of its two lists; packageManager is 'npm' only with
\* package-lock.json in the project root and 'unknown' when neither a
\* recognized lock file nor a manifest is there.
C16_ResourceCountsTheManifest ==
    DependenciesRead =>
       /\ response.kind = "ok"
       /\ response.payload.data.totalCount =
             Len(response.payload.data.dependencies)
             + Len(response.payload.data.devDependencies)
       /\ response.payload.data.packageManager = "npm"
             => exists(projectPath \o <<"package-lock.json">>)
       /\ (~LockFilePresent /\ ~exists(PackageJsonPath))
             => response.payload.data.packageManager = "unknown"
       /\ ManifestValid
             => response.payload.data.totalCount =
                   Len(fs[PackageJsonPath].dependencies)
                   + Len(fs[PackageJsonPath].devDependencies)

\* package.json is absent, unreadable or not JSON
ManifestUnusable == ~ManifestValid

----------------------------------------------------------------------------
(* Claims about the prompts *)

\* executePrompt was called with the name of one of the four prompts
PromptRequested == request.op = "executePrompt" /\ request.name \in RegisteredPrompts

\* the sections of the text of the one message of a PromptResponse
PromptSections == response.payload.data.messages[1].text

\* one of the readResource calls the requested prompt makes fails
UpstreamReadFails ==
    LET failed(uri) == readResource(uri).kind = "error"
        context    == failed(OverviewUri) \/ failed(StructureUri) \/ failed(DependenciesUri)
    IN  CASE request.name = "code_analysis" ->
               \/ failed(OverviewUri)
               \/ /\ request.params.file_path # <<>>
                  /\ failed(FileUriPrefix \o request.params.file_path)
          [] request.name = "debugging_assistance" ->
               \/ failed(OverviewUri)
               \/ \E i \in DOMAIN request.params.context_files :
                     i <= 3 /\ failed(FileUriPrefix \o request.params.context_files[i])
          [] OTHER -> context

\* C18: for each of the four prompts executePrompt returns a PromptResponse
\* with exactly one message, of role 'user', even when an upstream
\* readResource call fails, and then the text carries a note standing in for
\* the data that could not be read.
C18_PromptsSurviveReadFailures ==
    PromptRequested =>
       /\ response.kind = "ok"
       /\ Len(response.payload.data.messages) = 1
       /\ response.payload.data.messages[1].role = "user"
       /\ UpstreamReadFails
             => \E i \in DOMAIN PromptSections : PromptSections[i].kind = "note"

\* C19: in the text of code_analysis and of debugging_assistance every
\* embedded file contributes at most 2,000 characters of its content, and
\* the truncation marker follows exactly when the file is longer than that.
C19_EmbeddedContentIsTruncated ==
    (PromptRequested /\ response.kind = "ok")
       => \A i \in DOMAIN PromptSections :
             PromptSections[i].kind = "file content"
                => /\ PromptSections[i].chars <= 2000
                   /\ PromptSections[i].truncated
                         <=> fs[join(projectPath, PromptSections[i].file)].size > 2000

----------------------------------------------------------------------------
(* Claims about parameter validation *)

\* tools.ts:385-387 and 562   the parameter object with every default spelled out
DefaultParams ==
    [NoParams EXCEPT !.includeDevDependencies = "true", !.outputFormat = "summary"]

\* C20: search_project with a query that is missing, empty or not a string
\* fails with the Validation-classified error 'Search query is required'
\* before any file-system access; the other three tools take the empty
\* parameter object as the object of their defaults, and an error they then
\* answer with is never a Validation error about a parameter: the only
\* Validation error is that of analyze_dependencies for an unusable
\* package.json.
C20_OnlyTheQueryIsRequired ==
    request.op = "executeTool" =>
       /\ (/\ request.name = "search_project"
           /\ \/ request.params.query.type # "string"
              \/ request.params.query.value = "")
             => /\ response.kind = "error"
                /\ response.error.message =
                      <<"Invalid request: ", "Search query is required">>
                /\ accessed = {}
                /\ searchPc = "idle"
       /\ (request.name \in ToolNames \ {"search_project"} /\ request.params = NoParams)
             => /\ response = executeTool(request.name, DefaultParams)
                /\ Classified("Invalid request: ")
                      => /\ request.name = "analyze_dependencies"
                         /\ ManifestUnusable
                         /\ Tail(response.error.message) \in GenericToolMessages

\* search_project was called with the empty string as its query
C20_Witness ==
    /\ request.op = "executeTool"
    /\ request.name = "search_project"
    /\ request.params.query = [type |-> "string", value |-> ""]
    /\ response.kind = "error"
    /\ accessed = {}

----------------------------------------------------------------------------
(* Claims about the life of a request *)

\* the wrapped request has ended
Terminal == mwPc \in {"completed", "failed"}

\* C21: errorHandlingMiddleware invokes the wrapped operation exactly once;
\* the request ends completed with the operation's result unchanged, or
\* failed with one new Error carrying the normalized message; the operation
\* is never invoked again and an ended request keeps its outcome.
C21_OneInvocationOneOutcome ==
    [][ /\ invocations' <= 1
        /\ mwPc' \in {"executing", "completed", "failed"} => invocations' = 1
        /\ mwPc' = "completed"
              => /\ request'.input.kind = "ok"
                 /\ response' = request'.input
        /\ mwPc' = "failed"
              => /\ request'.input.kind = "error"
                 /\ response'.kind = "error"
                 /\ response'.error.name = "Error"
                 /\ response'.error.oid # request'.input.error.oid
                 /\ response'.error.message = normalizedMessage(request'.input.error)
        /\ Terminal => /\ mwPc' = mwPc
                       /\ response' = response
                       /\ invocations' = invocations ]_vars

\* an operation that rejected with a TypeError ended the request as failed
C21_Witness ==
    /\ mwPc = "failed"
    /\ invocations = 1
    /\ request.input.error.name = "TypeError"
    /\ response.error.message = <<"Internal server error">>

\* C22: the result of checkLimit(c) is decided by c's own admitted calls
\* inside the window alone, whatever the other clients called; the call
\* leaves the window of every other client as it was, and a call that
\* returns false leaves every stored window as it was.
C22_ChecksOnlyItsClient ==
    [][ Len(calls') = Len(calls) + 1 =>
          LET call == calls'[Len(calls')] IN
          /\ call.result <=> Cardinality(AdmittedIn(call.client, now)) < maxRequests
          /\ \A d \in Clients \ {call.client} : requests'[d] = requests[d]
          /\ ~call.result => requests' = requests ]_vars

\* one client was rejected while the other, called after it at the same
\* time, was admitted
C22_Witness ==
    \E i, j \in DOMAIN calls :
       /\ i < j
       /\ calls[i].client # calls[j].client
       /\ calls[i].ts = calls[j].ts
       /\ ~calls[i].result
       /\ calls[j].result
       /\ requests[calls[i].client] # <<>>

----------------------------------------------------------------------------
(* Claims about start and stop *)

\* the calls that changed isRunning
Changing == {k \in DOMAIN lifeCalls : lifeCalls[k].outcome = "done"}

\* how many calls of one kind reached connect or close
Reached(kind) ==
    Cardinality({k \in DOMAIN lifeCalls : /\ lifeCalls[k].kind = kind
                                          /\ lifeCalls[k].outcome # "warned"})
    + Cardinality({i \in DOMAIN pending : pending[i].kind = kind})

\* C23: isRunning is false at first and, across sequential start() and stop()
\* calls, true exactly when the last call that changed it was a start() whose
\* connect resolved.  start() while running and stop() while not running end
\* with a warning and call neither connect nor close; a start() whose connect
\* rejects throws and leaves isRunning false, a stop() whose close rejects
\* throws and leaves isRunning true.
C23_RunningFollowsLastChange ==
    /\ lifeCalls = <<>> => ~isRunning
    /\ pending = <<>> =>
          isRunning <=> /\ Changing # {}
                        /\ \E k \in Changing :
                              /\ lifeCalls[k].kind = "start"
                              /\ \A j \in Changing : j <= k
    /\ connects = Reached("start")
    /\ closes = Reached("stop")
    /\ \A k \in DOMAIN lifeCalls :
          LET call == lifeCalls[k] IN
          /\ call.outcome = "warned" <=> (call.before <=> call.kind = "start")
          /\ call.outcome = "warned" => call.after = call.before
          /\ call.outcome = "threw" => call.after = (call.kind = "stop")
          /\ call.outcome = "done" => call.after = (call.kind = "start")

\* the server was started, a stop() failed in close, and a further start()
\* ended with the warning
C23_Witness ==
    /\ isRunning
    /\ pending = <<>>
    /\ \E i, j \in DOMAIN lifeCalls :
          /\ i < j
          /\ lifeCalls[i].kind = "stop" /\ lifeCalls[i].outcome = "threw"
          /\ lifeCalls[j].kind = "start" /\ lifeCalls[j].outcome = "warned"

\* C28: when start() is called while an earlier start() is still awaiting
\* connect, connect is not called again, and when stop() is called while an
\* earlier stop() is still awaiting close, close is not called again: no two
\* calls of the same kind are ever awaiting connect, or close, together.
C28_NoSecondConnectOrClose ==
    \A i, j \in DOMAIN pending : pending[i].kind = pending[j].kind => i = j

----------------------------------------------------------------------------
(* Claims about unknown prompts and the order of names *)

ClassPrefixes == {"Invalid request: ", "Resource not found: ", "Permission denied: "}

\* C24: a request for a prompt that is not registered -- with executePrompt
\* any name but the four prompts, with the server's GetPrompt handler any
\* name but 'server_status' -- fails with an error that carries a class
\* prefix and the requested name, and is not 'Internal server error'.
C24_UnknownPromptIsClassified ==
    (\/ request.op = "executePrompt" /\ request.name \notin RegisteredPrompts
     \/ request.op = "GetPrompt" /\ request.name # "server_status")
       => /\ response.kind = "error"
          /\ response.error.message # <<"Internal server error">>
          /\ Head(response.error.message) \in ClassPrefixes
          /\ includes(response.error.message, <<request.name>>)

\* the directory nodes of the returned tree whose children were all built
\* and sorted
SortedDirectories ==
    {node \in TreeNodes(response.payload.data) :
        /\ "children" \in DOMAIN node
        /\ BuiltAllChildren(projectPath \o node.path)}

\* navigate_structure returned the listing of a directory
ListingReturned ==
    /\ request.op = "executeTool"
    /\ request.name = "navigate_structure"
    /\ response.kind = "ok"
    /\ response.payload.what = "navigation: directory"

----------------------------------------------------------------------------
(* Claims about the configuration *)

\* C26: fromEnvironment yields logLevel 'info', projectPath = process.cwd(),
\* cacheEnabled = true and cacheTTL = 300000 for each of LOG_LEVEL,
\* PROJECT_PATH, CACHE_ENABLED and CACHE_TTL that is not set; cacheEnabled is
\* false for CACHE_ENABLED = 'false' and true for 'true'; cacheTTL is 300000
\* when CACHE_TTL does not start with a number.
C26_EnvironmentDefaults ==
    config # NoConfig =>
       /\ ~env.LOG_LEVEL.set => config.logLevel = <<"i", "n", "f", "o">>
       /\ ~env.PROJECT_PATH.set => config.projectPath = cwd
       /\ ~env.CACHE_ENABLED.set => config.cacheEnabled
       /\ ~env.CACHE_TTL.set => config.cacheTTL = 300000
       /\ env.CACHE_ENABLED = SetTo(<<"f", "a", "l", "s", "e">>) => ~config.cacheEnabled
       /\ env.CACHE_ENABLED = SetTo(<<"t", "r", "u", "e">>) => config.cacheEnabled
       /\ (env.CACHE_TTL.set /\ parseInt(env.CACHE_TTL.value).nan)
             => config.cacheTTL = 300000

----------------------------------------------------------------------------
(* Claims about requests under way at once *)

RECURSIVE searchAlone(_, _, _)
\* the result object of a search whose walk runs without interruption
searchAlone(frames, res, options) ==
    IF frames = <<>> THEN res
    ELSE searchAlone(searchInDirectoryStep(frames, res, options).stack,
                     searchInDirectoryStep(frames, res, options).result, options)

\* C27: whatever the interleaving of two requests at their fs calls, a
\* finished search_project call holds exactly the matches it collects when
\* it runs alone, and a finished overview read the fileCount and sizeInBytes
\* it counts when it runs alone.
C27_RequestsDoNotInterfere ==
    \A i \in Requests :
       inflight[i].pc = "done" =>
          /\ inflight[i].kind = "search" =>
                inflight[i].result =
                   searchAlone(enterDirectory(<<>>, projectPath, 0, inflight[i].params),
                               EmptyResult, inflight[i].params)
          /\ inflight[i].kind = "overview" =>
                inflight[i].stats = getProjectStats(projectPath)

\* two searches for different queries overlapped and both found matches
C27_Witness ==
    /\ \A i \in Requests :
          /\ inflight[i].pc = "done"
          /\ inflight[i].kind = "search"
          /\ inflight[i].overlapped
          /\ inflight[i].result.totalResults > 0
    /\ inflight[1].params.query # inflight[2].params.query

----------------------------------------------------------------------------
(* Claims about the overview's statistics and the structure tree *)

\* every directory of the project can be listed and every entry stat'ed
ReadWithoutErrors ==
    /\ canStat(projectPath)
    /\ \A p \in DOMAIN fs :
          /\ fs[p].stat
          /\ fs[p].type = "directory" => fs[p].readable

\* the 'file' nodes of a tree
FileNodes(tree) == {n \in TreeNodes(tree) : n.type = "file"}

RECURSIVE SumOfSizes(_)
SumOfSizes(nodes) ==
    IF nodes = {} THEN 0
    ELSE LET n == CHOOSE x \in nodes : TRUE
         IN  n.size + SumOfSizes(nodes \ {n})

\* C29: for a project tree read without I/O errors, the overview's fileCount
\* is the number of 'file' nodes of the structure resource's tree and its
\* sizeInBytes the sum of the sizes of those nodes.
C29_StatisticsMatchTheTree ==
    (ReadWithoutErrors /\ request.op = "readResource" /\ response.kind = "ok")
       => /\ request.uri = OverviewUri =>
                LET files == FileNodes(getProjectStructure(projectPath).payload)
                IN  /\ response.payload.data.fileCount = Cardinality(files)
                    /\ response.payload.data.sizeInBytes = SumOfSizes(files)
          /\ request.uri = StructureUri =>
                LET files == FileNodes(response.payload.data)
                IN  /\ getProjectStats(projectPath).fileCount = Cardinality(files)
                    /\ getProjectStats(projectPath).sizeInBytes = SumOfSizes(files)

----------------------------------------------------------------------------
(* Claims about the dependency figures of the prompts *)

\* C30: the 'Total Dependencies', 'Production' and 'Development' values in
\* the text of project_overview and of architecture_review are numbers: the
\* totalCount and the lengths of the dependencies and devDependencies lists
\* of the dependencies resource read for the prompt, never 'undefined'.
C30_PromptsRenderTheDependencyCounts ==
    (/\ request.op = "executePrompt"
     /\ request.name \in {"project_overview", "architecture_review"}
     /\ response.kind = "ok")
       => \A i \in DOMAIN PromptSections :
             PromptSections[i].kind = "dependencies" =>
                LET rendered == PromptSections[i]
                    resource == getProjectDependencies(projectPath)
                IN  /\ rendered.total # "undefined"
                    /\ rendered.production # "undefined"
                    /\ rendered.development # "undefined"
                    /\ rendered.total = resource.totalCount
                    /\ rendered.production = Len(resource.dependencies)
                    /\ rendered.development = Len(resource.devDependencies)

====
